---- MODULE Spec2Model ----
(***************************************************************************)
(* Build pipeline of the Alexa and Google Conversational Actions CLI       *)
(* plugins (BuildHook.ts of platform-alexa and platform-googleassistantconv)*)
(* together with the collaborators they are driven by: the hook registry,  *)
(* the driver that fires the lifecycle events, and the task runner.        *)
(*                                                                         *)
(* A locale is a sequence of one-character strings, so that                *)
(* locale.substring(0, 2) and locale.includes('en') are computed on the    *)
(* characters as the code computes them.                                   *)
(***************************************************************************)
EXTENDS Integers, Sequences, FiniteSets, TLC

VARIABLES
    inp,        \* the invocation's inputs: flags, configuration, project state
    registry,   \* hook registry: event -> ordered handlers still registered
    pc,         \* the driver: "idle", "emitting", "done" or "failed"
    evIdx,      \* index into Events of the event being (or next to be) emitted
    pending,    \* handlers of the current emission that have not started yet
    active,     \* handlers that have started and not yet finished
    hpc,        \* position inside the active handler: "body", "tasks"
    tasks,      \* task tree of the active handler, flattened in declared order
    ctx,        \* values of the shared context: projectId, defaultLocale, and what
                \* the reverse build read from it
    disk,       \* platform output directory of each plugin
    proj,       \* the project: locales with a canonical model file, backups, the
                \* locales saveModel was called for, and the prompts shown
    err,        \* the error that surfaced to the driver, or NoErr
    log,        \* history: handlers in the order they were started
    passed,     \* history: plugin -> validation handlers completed without error
    res         \* result of the last locale function applied (SpecLocale)

vars == <<inp, registry, pc, evIdx, pending, active, hpc, tasks, ctx, disk, proj, err, log, passed, res>>

-----------------------------------------------------------------------------
(* Bounds *)

\* longest list of requested locale tokens (--locale)
MaxLocales == 2

-----------------------------------------------------------------------------
(* Locales *)

EN == <<"e", "n">>
DE == <<"d", "e">>
EN_US == <<"e", "n", "-", "U", "S">>
EN_GB == <<"e", "n", "-", "G", "B">>
DE_DE == <<"d", "e", "-", "D", "E">>
FR_FR == <<"f", "r", "-", "F", "R">>
DE_AT == <<"d", "e", "-", "A", "T">>
\* a locale code that contains "en" without starting with it
SV_EN == <<"s", "v", "-", "e", "n">>

\* JavaScript's undefined, where a locale is expected
Undefined == <<"?">>

Plugins == {"alexa", "googleAssistant"}

Min(a, b) == IF a < b THEN a ELSE b

Elems(s) == {s[i] : i \in 1..Len(s)}

\* All sequences over S of length lo..hi
SeqsOf(S, lo, hi) == UNION {[1..n -> S] : n \in lo..hi}

\* The sequences of SeqsOf that name no element twice
DistinctSeqsOf(S, lo, hi) ==
    {s \in SeqsOf(S, lo, hi) : \A i, j \in 1..Len(s) : i # j => s[i] # s[j]}

\* String.prototype.substring(0, 2)
Substring02(locale) == SubSeq(locale, 1, Min(2, Len(locale)))

\* String.prototype.includes('en')
IncludesEn(locale) == \E i \in 1..(Len(locale) - 1) : SubSeq(locale, i, i + 1) = EN

\* Array index access: locales[0] is undefined on an empty array
First(locales) == IF Len(locales) > 0 THEN locales[1] ELSE Undefined

-----------------------------------------------------------------------------
(* Errors *)

NoErr == [plugin |-> "", msg |-> "", locale |-> <<>>]

JovoCliError(plugin, msg, locale) == [plugin |-> plugin, msg |-> msg, locale |-> locale]

MsgAlexaUnsupported == "Locale is not supported by Amazon Alexa."
MsgGoogleUnsupported == "Locale is not supported by Google Conversational Actions."
MsgRequiresGeneric == "Locale requires a generic locale."
MsgNoProjectId == "Could not find projectId."
MsgNoDefaultLocale == "Could not find a default locale."
MsgInvalidModel == "Validation failed for the model."

-----------------------------------------------------------------------------
(* Locale resolution *)

\* _get(this.$config, `options.locales.${locale}`): the table's value, or undefined
GetProjectLocales(locale) ==
    IF locale \in DOMAIN inp.table
    THEN [found |-> TRUE, value |-> inp.table[locale]]
    ELSE [found |-> FALSE, value |-> <<>>]

\* PluginHook.getResolvedLocales: the table's value array, else the token itself
GetResolvedLocales(locale) ==
    LET entry == GetProjectLocales(locale)
    IN  IF entry.found THEN entry.value ELSE <<locale>>

RECURSIVE ReduceFrom(_, _, _)
\* locales.reduce((acc, locale) => { acc.push(...getResolvedLocales(locale)); return acc }, [])
ReduceFrom(locales, i, acc) ==
    IF i > Len(locales) THEN acc
    ELSE ReduceFrom(locales, i + 1, acc \o GetResolvedLocales(locales[i]))

\* the resolved locale list of validateLocales, build and createAlexaProjectFiles
ResolveAll(locales) == ReduceFrom(locales, 1, <<>>)

-----------------------------------------------------------------------------
(* Locale validation.  Each validation returns the error it throws (NoErr   *)
(* when it returns normally) and the number of locales it looked at.        *)

RECURSIVE AlexaCheckResolved(_, _, _)
\* the inner loop of the Alexa plugin's validateLocales
AlexaCheckResolved(resolvedLocales, j, seen) ==
    IF j > Len(resolvedLocales) THEN [error |-> NoErr, examined |-> seen]
    ELSE IF resolvedLocales[j] \notin inp.supportedAlexa
         THEN [error |-> JovoCliError("alexa", MsgAlexaUnsupported, resolvedLocales[j]),
               examined |-> seen + 1]
         ELSE AlexaCheckResolved(resolvedLocales, j + 1, seen + 1)

RECURSIVE AlexaCheckLocales(_, _, _)
\* the outer loop of the Alexa plugin's validateLocales
AlexaCheckLocales(locales, i, seen) ==
    IF i > Len(locales) THEN [error |-> NoErr, examined |-> seen]
    ELSE LET r == AlexaCheckResolved(GetResolvedLocales(locales[i]), 1, seen)
         IN  IF r.error # NoErr THEN r ELSE AlexaCheckLocales(locales, i + 1, r.examined)

RECURSIVE AlexaCheckLast(_, _, _)
AlexaCheckLast(all, i, acc) ==
    IF i > Len(all) THEN acc
    ELSE AlexaCheckLast(all, i + 1,
            IF all[i] \notin inp.supportedAlexa
            THEN [error |-> JovoCliError("alexa", MsgAlexaUnsupported, all[i]), examined |-> i]
            ELSE [acc EXCEPT !.examined = i])

\* a validation that goes through every locale and reports the last offender
ValidateLocalesAlexaKeepGoing(locales) ==
    AlexaCheckLast(ResolveAll(locales), 1, [error |-> NoErr, examined |-> 0])

ValidateLocalesAlexa(locales) == AlexaCheckLocales(locales, 1, 0)

RECURSIVE GoogleCheckLocales(_, _)
\* the loop of the Google plugin's validateLocales over the resolved locales
GoogleCheckLocales(locales, i) ==
    IF i > Len(locales) THEN [error |-> NoErr, examined |-> i - 1]
    ELSE LET locale == locales[i]
             genericLocale == Substring02(locale)
         IN  IF genericLocale \in inp.supportedGoogle /\ genericLocale \notin Elems(locales)
             THEN [error |-> JovoCliError("googleAssistant", MsgRequiresGeneric, locale),
                   examined |-> i]
             ELSE IF locale \notin inp.supportedGoogle
                  THEN [error |-> JovoCliError("googleAssistant", MsgGoogleUnsupported, locale),
                        examined |-> i]
                  ELSE GoogleCheckLocales(locales, i + 1)

RECURSIVE GoogleCheckNoGeneric(_, _)
GoogleCheckNoGeneric(locales, i) ==
    IF i > Len(locales) THEN [error |-> NoErr, examined |-> i - 1]
    ELSE IF locales[i] \notin inp.supportedGoogle
         THEN [error |-> JovoCliError("googleAssistant", MsgGoogleUnsupported, locales[i]),
               examined |-> i]
         ELSE GoogleCheckNoGeneric(locales, i + 1)

\* a validation that forgets the generic-locale requirement
ValidateLocalesGoogleNoGeneric(locales) == GoogleCheckNoGeneric(ResolveAll(locales), 1)

ValidateLocalesGoogle(locales) == GoogleCheckLocales(ResolveAll(locales), 1)

-----------------------------------------------------------------------------
(* Default locale of the Google build *)

RECURSIVE FirstEnglish(_, _)
\* for (const locale of locales) if (locale.includes('en')) return locale
FirstEnglish(locales, i) ==
    IF i > Len(locales) THEN Undefined
    ELSE IF IncludesEn(locales[i]) THEN locales[i] ELSE FirstEnglish(locales, i + 1)

\* !x on an optional string: undefined and the empty string are falsy
Falsy(x) == x = Undefined \/ x = <<>>

\* a || b on optional strings
OrElse(a, b) == IF Falsy(a) THEN b ELSE a

\* a selection that always takes the first resolved locale
GetDefaultLocaleFirstOnly(locales) ==
    LET defaultLocale == OrElse(inp.settingsDefaultLocale, inp.cfgDefaultLocale)
    IN  IF Falsy(defaultLocale) THEN First(locales) ELSE defaultLocale

\* getDefaultLocale(locales); build(), its only caller, always passes the resolved
\* locales, so the branch that throws MsgNoDefaultLocale is never taken
GetDefaultLocale(locales) ==
    LET defaultLocale == OrElse(inp.settingsDefaultLocale, inp.cfgDefaultLocale)
    IN  IF Falsy(defaultLocale)
        THEN LET english == FirstEnglish(locales, 1)
             IN  IF english # Undefined THEN english ELSE First(locales)
        ELSE defaultLocale


-----------------------------------------------------------------------------
(* Hook registry and the plugins' action sets *)

Events == <<"install", "parse", "before.build", "build", "reverse.build">>

Handler(plugin, name) == [plugin |-> plugin, name |-> name]

\* an action set whose before.build handlers validate after the clean-up and the
\* model validation
ActionSetGoogleReordered(event) ==
    CASE event = "install" -> <<"addCliOptions">>
      [] event = "parse" -> <<"checkForPlatform">>
      [] event = "before.build" ->
            <<"updatePluginContext", "checkForCleanBuild", "validateModels", "validateLocales">>
      [] event = "build" -> <<"build">>
      [] event = "reverse.build" -> <<"buildReverse">>

\* this.actionSet of the Google plugin's install()
ActionSetGoogle(event) ==
    CASE event = "install" -> <<"addCliOptions">>
      [] event = "parse" -> <<"checkForPlatform">>
      [] event = "before.build" ->
            <<"updatePluginContext", "checkForCleanBuild", "validateLocales", "validateModels">>
      [] event = "build" -> <<"build">>
      [] event = "reverse.build" -> <<"buildReverse">>

\* this.actionSet of the Alexa plugin's install()
ActionSetAlexa(event) ==
    CASE event = "install" -> <<>>
      [] event = "parse" -> <<"checkForPlatform">>
      [] event = "before.build" -> <<"checkForCleanBuild", "validateLocales", "validateModels">>
      [] event = "build" -> <<"build">>
      [] event = "reverse.build" -> <<"buildReverse">>

ActionSet(plugin, event) ==
    IF plugin = "alexa" THEN ActionSetAlexa(event) ELSE ActionSetGoogle(event)

\* register(event, handler) for every handler of the plugin's action set, in order
Registered(plugin, event) ==
    LET names == ActionSet(plugin, event)
    IN  [i \in 1..Len(names) |-> Handler(plugin, names[i])]

RECURSIVE RegisterAll(_, _, _)
RegisterAll(order, i, event) ==
    IF i > Len(order) THEN <<>>
    ELSE Registered(order[i], event) \o RegisterAll(order, i + 1, event)

RECURSIVE Without(_, _)
\* the handler list with every handler of the plugin removed, order kept
Without(handlers, plugin) ==
    IF handlers = <<>> THEN <<>>
    ELSE IF Head(handlers).plugin = plugin
         THEN Without(Tail(handlers), plugin)
         ELSE <<Head(handlers)>> \o Without(Tail(handlers), plugin)

\* unregister(pluginId): removes the plugin's handlers of every event
Unregister(reg, plugin) == [e \in DOMAIN reg |-> Without(reg[e], plugin)]

EventSet == {Events[i] : i \in 1..Len(Events)}


-----------------------------------------------------------------------------
(* Inputs of an invocation *)

NoTable == <<>>
TableEn == (EN :> <<EN_US, EN_GB>>)
TableEnGeneric == (EN :> <<EN, EN_US>>)
TableEnEmpty == (EN :> <<>>)
TableDeMixed == (DE :> <<DE_DE, FR_FR>>) @@ (EN :> <<EN_GB, EN_US>>)

NoFilter == [set |-> FALSE, ids |-> {}]
Filter(ids) == [set |-> TRUE, ids |-> ids]

\* the platform folder before the invocation: absent, or holding an earlier build
OldFile == <<"old", <<>>>>
DiskBefore(existed) ==
    [p \in Plugins |-> [exists |-> existed, files |-> IF existed THEN {OldFile} ELSE {}]]

\* inputs of the pipeline: every flag and configuration value the handlers read;
\* the requested locales are distinct tokens
PipelineInputs ==
    [ order : {<<"alexa", "googleAssistant">>, <<"googleAssistant", "alexa">>},
      platform : {NoFilter, Filter({"alexa"}), Filter({"googleAssistant"})},
      clean : BOOLEAN,
      flagProjectId : {""},
      cfgProjectId : {"", "cfg-id"},
      locales : DistinctSeqsOf({EN, EN_US, DE_DE}, 1, MaxLocales),
      table : {NoTable, TableEn, TableEnEmpty},
      settingsDefaultLocale : {Undefined},
      cfgDefaultLocale : {Undefined, DE_DE},
      supportedAlexa : {{EN_US, EN_GB}},
      supportedGoogle : {{EN_US, EN_GB}, {EN, DE, EN_US, EN_GB, DE_DE}},
      existed : BOOLEAN,
      canon : {{}, {EN, EN_US, DE_DE}, {EN, EN_US, EN_GB, DE_DE}} ]

\* inputs of the locale functions alone, over wider locale sets
LocaleInputs ==
    [ order : {<<"alexa", "googleAssistant">>},
      platform : {NoFilter},
      clean : {FALSE},
      flagProjectId : {""},
      cfgProjectId : {"cfg-id"},
      locales : DistinctSeqsOf({EN, EN_US, DE, DE_AT, FR_FR, SV_EN}, 1, MaxLocales),
      table : {NoTable, TableEn, TableEnGeneric, TableEnEmpty, TableDeMixed},
      settingsDefaultLocale : {Undefined, FR_FR},
      cfgDefaultLocale : {Undefined, <<>>, DE_DE},
      supportedAlexa : {{EN_US, EN_GB}, {EN_US, EN_GB, DE_DE, FR_FR}},
      supportedGoogle : {{EN_US, EN_GB}, {EN, DE, EN_US, EN_GB, DE_DE, SV_EN}},
      existed : {FALSE},
      canon : {{}} ]

\* the reverse build has not read the context yet
NoReverse ==
    [platforms |-> {}, localeFlag |-> FALSE, force |-> FALSE, answer |-> "", locales |-> <<>>,
     platformLocales |-> <<>>]

NoRes ==
    [op |-> "none", locales |-> <<>>, error |-> NoErr, examined |-> 0, locale |-> <<>>,
     value |-> <<>>]

Idle ==
    /\ registry = [e \in EventSet |-> RegisterAll(inp.order, 1, e)]
    /\ pc = "idle"
    /\ evIdx = 1
    /\ pending = <<>>
    /\ active = {}
    /\ hpc = "none"
    /\ tasks = <<>>
    /\ ctx = [projectId |-> "", defaultLocale |-> Undefined, reverse |-> NoReverse]
    /\ disk = DiskBefore(inp.existed)
    /\ proj = [models |-> inp.canon, backups |-> {}, saves |-> <<>>, prompts |-> 0]
    /\ err = NoErr
    /\ log = <<>>
    /\ passed = [p \in Plugins |-> {}]
    /\ res = NoRes

\* the state after the plugins are constructed and installed into the registry
Init == inp \in PipelineInputs /\ Idle

-----------------------------------------------------------------------------
(* The driver and the emitter *)

CurrentEvent == Events[evIdx]

\* emit(event, context): takes the event's remaining handlers
Emit ==
    /\ pc = "idle"
    /\ pc' = "emitting"
    /\ pending' = registry[CurrentEvent]
    /\ UNCHANGED <<inp, registry, evIdx, active, hpc, tasks, ctx, disk, proj, err, log, passed, res>>

\* the emitter invokes the next handler once the previous one has completed
StartHandler ==
    /\ pc = "emitting"
    /\ pending # <<>>
    /\ active = {}
    /\ active' = {Head(pending)}
    /\ pending' = Tail(pending)
    /\ hpc' = "body"
    /\ log' = Append(log, [event |-> CurrentEvent, plugin |-> Head(pending).plugin,
                           name |-> Head(pending).name])
    /\ UNCHANGED <<inp, registry, pc, evIdx, tasks, ctx, disk, proj, err, passed, res>>

\* the emission is over; the driver goes on to the next event
EndEmit ==
    /\ pc = "emitting"
    /\ pending = <<>>
    /\ active = {}
    /\ IF evIdx = Len(Events)
       THEN pc' = "done" /\ evIdx' = evIdx
       ELSE pc' = "idle" /\ evIdx' = evIdx + 1
    /\ UNCHANGED <<inp, registry, pending, active, hpc, tasks, ctx, disk, proj, err, log, passed, res>>

\* the active handler is at the start of its body
Running(plugin, name) == active = {Handler(plugin, name)} /\ hpc = "body"

\* the handler returns normally
Return ==
    /\ active' = {}
    /\ hpc' = "none"
    /\ tasks' = <<>>
    /\ UNCHANGED <<pc, evIdx, pending, err>>

\* the handler throws: the remaining handlers of the event are not invoked and
\* the error surfaces to the driver, which ends the invocation
Throw(error) ==
    /\ active' = {}
    /\ hpc' = "none"
    /\ tasks' = <<>>
    /\ pending' = <<>>
    /\ err' = error
    /\ pc' = "failed"
    /\ UNCHANGED evIdx


-----------------------------------------------------------------------------
(* Tasks.  The task tree of a handler is kept flattened in declared order:   *)
(* a leaf is [kind, locale, status, parent, msg, named, runs, converted]; a  *)
(* group with children is an entry of kind "group" whose children name it    *)
(* as their parent.  msg and named are the message of the error the action   *)
(* threw and the locale it names, runs counts the calls of the action,       *)
(* converted is what the converter returned to it for each resolved locale   *)
(* and thrown is the class of the error the action threw.                    *)

Task(kind, locale, parent) ==
    [kind |-> kind, locale |-> locale, status |-> "pending", parent |-> parent, msg |-> "",
     named |-> <<>>, runs |-> 0, converted |-> <<>>, thrown |-> ""]

\* a leaf the runner may visit: not run yet, and not inside a disabled group
Runnable(i) ==
    /\ tasks[i].status = "pending"
    /\ tasks[i].kind # "group"
    /\ IF tasks[i].parent = 0 THEN TRUE ELSE tasks[tasks[i].parent].status # "skipped"

HasRunnable == \E i \in 1..Len(tasks) : Runnable(i)

\* children run in declared order
NextTask == CHOOSE i \in 1..Len(tasks) : Runnable(i) /\ \A j \in 1..(i - 1) : ~Runnable(j)

Failed == {i \in 1..Len(tasks) : tasks[i].status = "failed"}

FirstFailed == CHOOSE i \in Failed : \A j \in Failed : i <= j

ActivePlugin == (CHOOSE h \in active : TRUE).plugin

\* the runner is about to run a leaf of this kind for this plugin
AtTask(plugin, kind) ==
    /\ hpc \in {"tasks", "backup"}
    /\ active # {}
    /\ ActivePlugin = plugin
    /\ HasRunnable
    /\ tasks[NextTask].kind = kind

\* the runner called the leaf's action and reports how it ended
Report(status, msg, named, converted) ==
    tasks' = [tasks EXCEPT ![NextTask].status = status, ![NextTask].msg = msg,
                           ![NextTask].named = named, ![NextTask].runs = @ + 1,
                           ![NextTask].converted = converted,
                           ![NextTask].thrown = IF status = "failed" THEN "JovoCliError" ELSE ""]

\* the leaf's action threw an error that is not a JovoCliError
Thrown(class, msg, converted) ==
    tasks' = [tasks EXCEPT ![NextTask].status = "failed", ![NextTask].msg = msg,
                           ![NextTask].runs = @ + 1, ![NextTask].converted = converted,
                           ![NextTask].thrown = class]

\* the leaf's action returned: the runner reports success
Succeed == Report("ok", "", <<>>, <<>>)

\* the leaf's action threw: the runner reports the failure and goes on to the
\* next sibling
Fail(msg) == Report("failed", msg, <<>>, <<>>)

\* a run() that resolves whatever its subtasks did
FinishTasksIgnoreFailures ==
    /\ hpc = "tasks"
    /\ active # {}
    /\ ~HasRunnable
    /\ Return
    /\ passed' = IF \E i \in 1..Len(tasks) : tasks[i].kind = "validate"
                 THEN [passed EXCEPT ![ActivePlugin] = @ \cup {"models"}]
                 ELSE passed
    /\ UNCHANGED <<inp, registry, ctx, disk, proj, log, res>>

\* run() of the handler's top-level task is over: it rejects when a subtask failed
FinishTasks ==
    /\ hpc = "tasks"
    /\ active # {}
    /\ ~HasRunnable
    /\ IF Failed = {}
       THEN /\ Return
            /\ passed' = IF \E i \in 1..Len(tasks) : tasks[i].kind = "validate"
                         THEN [passed EXCEPT ![ActivePlugin] = @ \cup {"models"}]
                         ELSE passed
       ELSE /\ Throw(JovoCliError(ActivePlugin, tasks[FirstFailed].msg, tasks[FirstFailed].locale))
            /\ UNCHANGED passed
    /\ UNCHANGED <<inp, registry, ctx, disk, proj, log, res>>

\* jovo.$project.hasModelFiles(locales)
HasModelFiles(locales) == \E i \in 1..Len(locales) : locales[i] \in proj.models

MsgNoModelFile == "Could not find model file for locale."


-----------------------------------------------------------------------------
(* Handlers of install, parse and before.build *)

\* addCliOptions: declares the --project-id flag of the build command
AddCliOptions ==
    /\ Running("googleAssistant", "addCliOptions")
    /\ Return
    /\ UNCHANGED <<inp, registry, ctx, disk, proj, log, passed, res>>

\* a platform check that never uninstalls
CheckForPlatformKeep(plugin) ==
    /\ Running(plugin, "checkForPlatform")
    /\ Return
    /\ UNCHANGED <<inp, registry, ctx, disk, proj, log, passed, res>>

\* checkForPlatform: the plugin uninstalls itself when --platform excludes it
CheckForPlatform(plugin) ==
    /\ Running(plugin, "checkForPlatform")
    /\ IF inp.platform.set /\ plugin \notin inp.platform.ids
       THEN registry' = Unregister(registry, plugin)
       ELSE UNCHANGED registry
    /\ Return
    /\ UNCHANGED <<inp, ctx, disk, proj, log, passed, res>>

\* a context update that goes on without a project id
UpdatePluginContextNoThrow ==
    /\ Running("googleAssistant", "updatePluginContext")
    /\ ctx' = [ctx EXCEPT !.projectId =
                  IF inp.flagProjectId # "" THEN inp.flagProjectId ELSE inp.cfgProjectId]
    /\ Return
    /\ UNCHANGED <<inp, registry, disk, proj, log, passed, res>>

\* updatePluginContext of the build command: resolves the project id or throws
UpdatePluginContext ==
    /\ Running("googleAssistant", "updatePluginContext")
    /\ LET projectId == IF inp.flagProjectId # "" THEN inp.flagProjectId ELSE inp.cfgProjectId
       IN  /\ ctx' = [ctx EXCEPT !.projectId = projectId]
           /\ IF projectId = ""
              THEN Throw(JovoCliError("googleAssistant", MsgNoProjectId, <<>>))
              ELSE Return
    /\ UNCHANGED <<inp, registry, disk, proj, log, passed, res>>

\* checkForCleanBuild: --clean deletes the platform folder
CheckForCleanBuild(plugin) ==
    /\ Running(plugin, "checkForCleanBuild")
    /\ disk' = IF inp.clean
               THEN [disk EXCEPT ![plugin] = [exists |-> FALSE, files |-> {}]]
               ELSE disk
    /\ Return
    /\ UNCHANGED <<inp, registry, ctx, proj, log, passed, res>>

\* the handler validateLocales, given what the validation returned
ValidateLocales(plugin, result) ==
    /\ Running(plugin, "validateLocales")
    /\ IF result.error # NoErr
       THEN Throw(result.error) /\ UNCHANGED passed
       ELSE Return /\ passed' = [passed EXCEPT ![plugin] = @ \cup {"locales"}]
    /\ UNCHANGED <<inp, registry, ctx, disk, proj, log, res>>

\* a validation whose error is never thrown
AlexaValidateLocalesNoThrow == ValidateLocales("alexa", [error |-> NoErr, examined |-> 0])

AlexaValidateLocales == ValidateLocales("alexa", ValidateLocalesAlexa(inp.locales))

GoogleValidateLocales == ValidateLocales("googleAssistant", ValidateLocalesGoogle(inp.locales))

\* validateModels: one validation task per requested locale, then run them
ValidateModels(plugin) ==
    /\ Running(plugin, "validateModels")
    /\ tasks' = [i \in 1..Len(inp.locales) |-> Task("validate", inp.locales[i], 0)]
    /\ hpc' = "tasks"
    /\ UNCHANGED <<inp, registry, pc, evIdx, pending, active, ctx, disk, proj, err, log, passed, res>>

\* a locale's validation task: validateModel(locale, validator) returns or throws
RunValidateTask(plugin) ==
    /\ AtTask(plugin, "validate")
    /\ \E valid \in BOOLEAN : IF valid THEN Succeed ELSE Fail(MsgInvalidModel)
    /\ UNCHANGED <<inp, registry, pc, evIdx, pending, active, hpc, ctx, disk, proj, err, log, passed, res>>

-----------------------------------------------------------------------------
(* Handlers of build *)

ProjectFile == <<"project", <<>>>>
ActionsFile == <<"actions", <<>>>>
ModelFile(locale) == <<"model", locale>>

\* a task tree that puts Interaction Model before Project Files
BuildTasksModelFirst ==
    <<[Task("group", <<>>, 0) EXCEPT
          !.status = IF HasModelFiles(inp.locales) THEN "pending" ELSE "skipped"]>>
    \o [i \in 1..Len(inp.locales) |-> Task("model", inp.locales[i], 1)]
    \o <<Task("projectFiles", <<>>, 0)>>

\* the task tree of build(): Project Files, then Interaction Model with one
\* child per requested locale, disabled when there are no model files
BuildTasks ==
    <<Task("projectFiles", <<>>, 0),
      [Task("group", <<>>, 0) EXCEPT
          !.status = IF HasModelFiles(inp.locales) THEN "pending" ELSE "skipped"]>>
    \o [i \in 1..Len(inp.locales) |-> Task("model", inp.locales[i], 2)]

\* build() of the Alexa plugin
AlexaBuild ==
    /\ Running("alexa", "build")
    /\ tasks' = BuildTasks
    /\ hpc' = "tasks"
    /\ UNCHANGED <<inp, registry, pc, evIdx, pending, active, ctx, disk, proj, err, log, passed, res>>

\* build() of the Google plugin: also chooses the default locale
GoogleBuild ==
    /\ Running("googleAssistant", "build")
    /\ ctx' = [ctx EXCEPT !.defaultLocale = GetDefaultLocale(ResolveAll(inp.locales))]
    /\ tasks' = BuildTasks
    /\ hpc' = "tasks"
    /\ UNCHANGED <<inp, registry, pc, evIdx, pending, active, disk, proj, err, log, passed, res>>

\* FileBuilder.buildDirectory(projectFiles, getPlatformPath())
WriteFiles(plugin, files) ==
    disk' = [disk EXCEPT ![plugin] = [exists |-> TRUE, files |-> @.files \cup files]]

\* createAlexaProjectFiles
AlexaProjectFiles ==
    /\ AtTask("alexa", "projectFiles")
    /\ WriteFiles("alexa", {ProjectFile})
    /\ Succeed
    /\ UNCHANGED <<inp, registry, pc, evIdx, pending, active, hpc, ctx, proj, err, log, passed, res>>

\* getInvocationName(locale) is called for every resolved locale of every
\* requested locale; it loads the requested locale's model, which must exist
InvocationNamesFound ==
    \A i \in 1..Len(inp.locales) :
        GetResolvedLocales(inp.locales[i]) = <<>> \/ inp.locales[i] \in proj.models

\* createGoogleProjectFiles
GoogleProjectFiles ==
    /\ AtTask("googleAssistant", "projectFiles")
    /\ IF InvocationNamesFound
       THEN WriteFiles("googleAssistant", {ProjectFile}) /\ Succeed
       ELSE Fail(MsgNoModelFile) /\ UNCHANGED disk
    /\ UNCHANGED <<inp, registry, pc, evIdx, pending, active, hpc, ctx, proj, err, log, passed, res>>

\* what exportNative() returns for a locale: files, an empty list, or undefined
ConverterOutputs == {"files", "empty", "none"}

MsgCouldNotBuildAlexa == "Could not build Alexa files for locale!"
MsgNotIterable == "modelFiles is not iterable"

\* position of the first locale whose converter output is one of bad; 0 when
\* there is none
FirstWithout(locales, out, bad) ==
    LET S == {i \in 1..Len(locales) : out[locales[i]] \in bad}
    IN  IF S = {} THEN 0 ELSE CHOOSE i \in S : \A j \in S : i <= j

\* the locales the loop got through before it threw at position k
Before(locales, k) == IF k = 0 THEN locales ELSE SubSeq(locales, 1, k - 1)

MsgEacces == "EACCES: permission denied"

\* buildLanguageModel of the Alexa plugin: one model file per resolved locale;
\* throws at the first locale the converter returns no file for; the error of a
\* write that fails (the models folder is not writable) is caught and thrown
\* again as a JovoCliError with its message
AlexaBuildLanguageModel ==
    /\ AtTask("alexa", "model")
    /\ LET modelLocale == tasks[NextTask].locale
           resolvedLocales == GetResolvedLocales(modelLocale)
       IN  IF modelLocale \in proj.models
           THEN \E out \in [Elems(resolvedLocales) -> ConverterOutputs], writable \in BOOLEAN :
                   LET k == FirstWithout(resolvedLocales, out, {"empty", "none"})
                       done == Before(resolvedLocales, k)
                   IN  IF done # <<>> /\ ~writable
                       THEN Report("failed", MsgEacces, <<>>, out) /\ UNCHANGED disk
                       ELSE /\ IF done = <<>>
                               THEN UNCHANGED disk
                               ELSE WriteFiles("alexa", {ModelFile(l) : l \in Elems(done)})
                            /\ IF k = 0
                               THEN Report("ok", "", <<>>, out)
                               ELSE Report("failed", MsgCouldNotBuildAlexa, resolvedLocales[k], out)
           ELSE Fail(MsgNoModelFile) /\ UNCHANGED disk
    /\ UNCHANGED <<inp, registry, pc, evIdx, pending, active, hpc, ctx, proj, err, log, passed, res>>

\* a build that writes the requested locale's file instead of the resolved ones
GoogleBuildLanguageModelRequestedOnly ==
    /\ AtTask("googleAssistant", "model")
    /\ IF tasks[NextTask].locale \in proj.models
       THEN /\ WriteFiles("googleAssistant", {ModelFile(tasks[NextTask].locale), ActionsFile})
            /\ Report("ok", "", <<>>,
                      [l \in Elems(GetResolvedLocales(tasks[NextTask].locale)) |-> "files"])
       ELSE Fail(MsgNoModelFile) /\ UNCHANGED disk
    /\ UNCHANGED <<inp, registry, pc, evIdx, pending, active, hpc, ctx, proj, err, log, passed, res>>

\* buildLanguageModel of the Google plugin: for every resolved locale the files
\* the converter returned and then the actions registry; iterating over
\* undefined throws, an empty list is iterated without complaint
GoogleBuildLanguageModel ==
    /\ AtTask("googleAssistant", "model")
    /\ LET modelLocale == tasks[NextTask].locale
           resolvedLocales == GetResolvedLocales(modelLocale)
       IN  IF modelLocale \in proj.models
           THEN \E out \in [Elems(resolvedLocales) -> ConverterOutputs], writable \in BOOLEAN :
                   LET k == FirstWithout(resolvedLocales, out, {"none"})
                       done == Before(resolvedLocales, k)
                   IN  IF done # <<>> /\ ~writable
                       THEN Thrown("Error", MsgEacces, out) /\ UNCHANGED disk
                       ELSE /\ IF done = <<>>
                               THEN UNCHANGED disk
                               ELSE WriteFiles("googleAssistant",
                                        {ModelFile(l) : l \in {x \in Elems(done) : out[x] = "files"}}
                                            \cup {ActionsFile})
                            /\ IF k = 0
                               THEN Report("ok", "", <<>>, out)
                               ELSE Thrown("TypeError", MsgNotIterable, out)
           ELSE Fail(MsgNoModelFile) /\ UNCHANGED disk
    /\ UNCHANGED <<inp, registry, pc, evIdx, pending, active, hpc, ctx, proj, err, log, passed, res>>


-----------------------------------------------------------------------------
(* Handlers of reverse.build *)

\* buildReverse of the Google plugin: a task whose action does nothing
GoogleBuildReverse ==
    /\ Running("googleAssistant", "buildReverse")
    /\ tasks' = <<Task("stub", <<>>, 0)>>
    /\ hpc' = "tasks"
    /\ UNCHANGED <<inp, registry, pc, evIdx, pending, active, ctx, disk, proj, err, log, passed, res>>

GoogleReverseStub ==
    /\ AtTask("googleAssistant", "stub")
    /\ Succeed
    /\ UNCHANGED <<inp, registry, pc, evIdx, pending, active, hpc, ctx, disk, proj, err, log, passed, res>>

\* readdirSync lists the entries in sorted order
LocaleOrder == <<DE, DE_AT, DE_DE, EN, EN_GB, EN_US, FR_FR, SV_EN>>

\* getPlatformLocales(): the locales of the model files in the platform folder
GetPlatformLocales == SelectSeq(LocaleOrder, LAMBDA l : ModelFile(l) \in disk["alexa"].files)

\* context.platforms: the --platform selection, or the platforms prompted for
PlatformsChoices ==
    IF inp.platform.set THEN {inp.platform.ids} ELSE {{"alexa"}, {"googleAssistant"}, Plugins}

MsgNoModelsFolder == "ENOENT: no such file or directory, scandir"
MsgNoPlatformModel == "Could not find platform models for locale"
MsgNoValidData == "Alexa files did not contain any valid data."

\* a check that finds every requested locale
FirstMissingNone(requested, platformLocales, i) == 0

RECURSIVE FirstMissing(_, _, _)
\* the first requested locale that has no platform model; 0 when there is none
FirstMissing(requested, platformLocales, i) ==
    IF i > Len(requested) THEN 0
    ELSE IF requested[i] \in Elems(platformLocales) THEN FirstMissing(requested, platformLocales, i + 1)
         ELSE i

ReverseTasks(locales) == [i \in 1..Len(locales) |-> Task("reverse", locales[i], 0)]

\* backups of the first locale only
BackupTasksFirstOnly(locales) == <<Task("backup", locales[1], 0)>>

BackupTasks(locales) == [i \in 1..Len(locales) |-> Task("backup", locales[i], 0)]

\* buildReverse of the Alexa plugin, up to the first task it runs
AlexaBuildReverse ==
    /\ Running("alexa", "buildReverse")
    /\ \E platforms \in PlatformsChoices, localeFlag \in BOOLEAN, force \in BOOLEAN,
          answer \in {"cancel", "backup", "overwrite"} :
          IF "alexa" \notin platforms
          THEN /\ Return
               /\ ctx' = [ctx EXCEPT !.reverse = [NoReverse EXCEPT !.platforms = platforms]]
               /\ UNCHANGED proj
          ELSE IF ~(\E f \in disk["alexa"].files : f[1] = "model")
          THEN /\ Throw(JovoCliError("alexa", MsgNoModelsFolder, <<>>))
               /\ ctx' = [ctx EXCEPT !.reverse = [NoReverse EXCEPT !.platforms = platforms,
                                                                    !.localeFlag = localeFlag,
                                                                    !.force = force]]
               /\ UNCHANGED proj
          ELSE LET platformLocales == GetPlatformLocales
                   missing == FirstMissing(inp.locales, platformLocales, 1)
                   locales == IF localeFlag THEN inp.locales ELSE platformLocales
                   prompted == HasModelFiles(locales) /\ ~force
                   read == [platforms |-> platforms, localeFlag |-> localeFlag, force |-> force,
                            answer |-> IF prompted THEN answer ELSE "",
                            locales |-> locales, platformLocales |-> platformLocales]
               IN  IF localeFlag /\ missing # 0
                   THEN /\ Throw(JovoCliError("alexa", MsgNoPlatformModel, inp.locales[missing]))
                        /\ ctx' = [ctx EXCEPT !.reverse = [read EXCEPT !.answer = ""]]
                        /\ UNCHANGED proj
                   ELSE /\ ctx' = [ctx EXCEPT !.reverse = read]
                        /\ proj' = [proj EXCEPT !.prompts = IF prompted THEN @ + 1 ELSE @]
                        /\ IF prompted /\ answer = "cancel"
                           THEN Return
                           ELSE IF prompted /\ answer = "backup"
                           THEN /\ tasks' = BackupTasks(locales)
                                /\ hpc' = "backup"
                                /\ UNCHANGED <<pc, evIdx, pending, active, err>>
                           ELSE /\ tasks' = ReverseTasks(locales)
                                /\ hpc' = "tasks"
                                /\ UNCHANGED <<pc, evIdx, pending, active, err>>
    /\ UNCHANGED <<inp, registry, disk, log, passed, res>>

\* a locale's backup task: jovo.$project.backupModel(locale)
AlexaBackupModel ==
    /\ AtTask("alexa", "backup")
    /\ proj' = [proj EXCEPT !.backups = @ \cup {tasks[NextTask].locale}]
    /\ Succeed
    /\ UNCHANGED <<inp, registry, pc, evIdx, pending, active, hpc, ctx, disk, err, log, passed, res>>

\* backupTask.run() is over: the reverse tasks of the same locales follow
AlexaBackupDone ==
    /\ hpc = "backup"
    /\ active # {}
    /\ ~HasRunnable
    /\ IF Failed = {}
       THEN /\ tasks' = ReverseTasks([i \in 1..Len(tasks) |-> tasks[i].locale])
            /\ hpc' = "tasks"
            /\ UNCHANGED <<pc, evIdx, pending, active, err>>
       ELSE Throw(JovoCliError("alexa", tasks[FirstFailed].msg, tasks[FirstFailed].locale))
    /\ UNCHANGED <<inp, registry, ctx, disk, proj, log, passed, res>>

\* a reverse task that saves the model before it looks at the parsed data
AlexaReverseLocaleSaveFirst ==
    /\ AtTask("alexa", "reverse")
    /\ proj' = [proj EXCEPT !.models = @ \cup {tasks[NextTask].locale},
                            !.saves = Append(@, tasks[NextTask].locale)]
    /\ \E validData \in BOOLEAN : IF validData THEN Succeed ELSE Fail(MsgNoValidData)
    /\ UNCHANGED <<inp, registry, pc, evIdx, pending, active, hpc, ctx, disk, err, log, passed, res>>

\* a locale's reverse task: import the platform model, merge it into the
\* canonical model (or into {invocation: ''}) and save it
AlexaReverseLocale ==
    /\ AtTask("alexa", "reverse")
    /\ \E validData \in BOOLEAN :
          IF validData
          THEN /\ proj' = [proj EXCEPT !.models = @ \cup {tasks[NextTask].locale},
                                        !.saves = Append(@, tasks[NextTask].locale)]
               /\ Succeed
          ELSE Fail(MsgNoValidData) /\ UNCHANGED proj
    /\ UNCHANGED <<inp, registry, pc, evIdx, pending, active, hpc, ctx, disk, err, log, passed, res>>

-----------------------------------------------------------------------------
(* Specification of the pipeline *)

Next ==
    \/ Emit
    \/ StartHandler
    \/ EndEmit
    \/ AddCliOptions
    \/ \E plugin \in Plugins : CheckForPlatform(plugin)
    \/ UpdatePluginContext
    \/ \E plugin \in Plugins : CheckForCleanBuild(plugin)
    \/ AlexaValidateLocales
    \/ GoogleValidateLocales
    \/ \E plugin \in Plugins : ValidateModels(plugin)
    \/ \E plugin \in Plugins : RunValidateTask(plugin)
    \/ AlexaBuild
    \/ GoogleBuild
    \/ AlexaProjectFiles
    \/ GoogleProjectFiles
    \/ AlexaBuildLanguageModel
    \/ GoogleBuildLanguageModel
    \/ GoogleBuildReverse
    \/ GoogleReverseStub
    \/ AlexaBuildReverse
    \/ AlexaBackupModel
    \/ AlexaBackupDone
    \/ AlexaReverseLocale
    \/ FinishTasks

Spec == Init /\ [][Next]_vars


-----------------------------------------------------------------------------
(* Specification of the locale functions: each is applied to inputs drawn    *)
(* from LocaleInputs and its result kept in res.                             *)

InitLocale == inp \in LocaleInputs /\ Idle

Applied(op, locales, result, locale) ==
    /\ res.op = "none"
    /\ res' = [op |-> op, locales |-> locales, error |-> result.error,
               examined |-> result.examined, locale |-> locale, value |-> <<>>]
    /\ UNCHANGED <<inp, registry, pc, evIdx, pending, active, hpc, tasks, ctx, disk, proj,
                   err, log, passed>>

NoResult == [error |-> NoErr, examined |-> 0]

ApplyResolve == Applied("resolve", ResolveAll(inp.locales), NoResult, <<>>)

ApplyValidateAlexa == Applied("validateAlexa", <<>>, ValidateLocalesAlexa(inp.locales), <<>>)

ApplyValidateGoogle == Applied("validateGoogle", <<>>, ValidateLocalesGoogle(inp.locales), <<>>)

ApplyGetDefaultLocale ==
    Applied("defaultLocale", <<>>, NoResult, GetDefaultLocale(ResolveAll(inp.locales)))

NextLocale ==
    \/ ApplyResolve
    \/ ApplyValidateAlexa
    \/ ApplyValidateGoogle
    \/ ApplyGetDefaultLocale

SpecLocale == InitLocale /\ [][NextLocale]_vars


-----------------------------------------------------------------------------
(* Configuration values, models and file trees: a value is a string (kept    *)
(* as a sequence of its parts), null, an array of values, an object (a       *)
(* mapping from keys to values) or undefined.                                *)

Str(x) == [t |-> "s", v |-> <<x>>]
\* the string that spells a locale code
LocaleStr(locale) == [t |-> "s", v |-> locale]
Null == [t |-> "n", v |-> <<>>]
Arr(elements) == [t |-> "a", v |-> elements]
Obj(members) == [t |-> "o", v |-> members]
Undef == [t |-> "u", v |-> <<>>]
EmptyObj == Obj(<<>>)

\* the value's own keys, when it is an object
Keys(value) == IF value.t = "o" THEN DOMAIN value.v ELSE {}

\* value[key], undefined when there is no such member
Member(value, key) == IF key \in Keys(value) THEN value.v[key] ELSE Undef

\* the elements in order, each kept where it occurs first
Uniq(elements) ==
    LET keep == {i \in 1..Len(elements) : \A j \in 1..(i - 1) : elements[j] # elements[i]}
        Nth(n) == CHOOSE i \in keep : Cardinality({j \in keep : j <= i}) = n
    IN  [n \in 1..Cardinality(keep) |-> elements[Nth(n)]]

Max(a, b) == IF a > b THEN a ELSE b

RECURSIVE MergeValue(_, _, _)
\* what lodash's merge assigns to a key that holds objValue when the source
\* holds srcValue there; customized is mergeWith(..., mergeArrayCustomizer),
\* which concatenates two arrays and drops the duplicates
MergeValue(objValue, srcValue, customized) ==
    CASE srcValue.t = "u" -> objValue
      [] srcValue.t \in {"s", "n"} -> srcValue
      [] srcValue.t = "a" ->
            IF objValue.t # "a" THEN srcValue
            ELSE IF customized THEN Arr(Uniq(objValue.v \o srcValue.v))
            ELSE Arr([i \in 1..Max(Len(objValue.v), Len(srcValue.v)) |->
                        IF i > Len(srcValue.v) THEN objValue.v[i]
                        ELSE IF i > Len(objValue.v) THEN srcValue.v[i]
                        ELSE MergeValue(objValue.v[i], srcValue.v[i], customized)])
      [] srcValue.t = "o" ->
            IF objValue.t # "o" THEN srcValue
            ELSE Obj([k \in Keys(objValue) \cup Keys(srcValue) |->
                        MergeValue(Member(objValue, k), Member(srcValue, k), customized)])

\* _merge(object, source)
Merge(object, source) == MergeValue(object, source, FALSE)

\* _mergeWith(object, source, mergeArrayCustomizer)
MergeWith(object, source) == MergeValue(object, source, TRUE)

RECURSIVE Has(_, _)
\* _has(object, path): every key of the path is an own key
Has(object, path) ==
    IF path = <<>> THEN TRUE
    ELSE IF Head(path) \in Keys(object) THEN Has(object.v[Head(path)], Tail(path))
    ELSE FALSE

RECURSIVE Get(_, _)
\* _get(object, path)
Get(object, path) ==
    IF path = <<>> THEN object
    ELSE IF Head(path) \in Keys(object) THEN Get(object.v[Head(path)], Tail(path))
    ELSE Undef

RECURSIVE Set(_, _, _)
\* _set(object, path, value): objects are created along the path where it
\* does not go through one
Set(object, path, value) ==
    IF path = <<>> THEN value
    ELSE Obj([k \in Keys(object) \cup {Head(path)} |->
                IF k = Head(path)
                THEN Set(Member(object, k), Tail(path), value)
                ELSE object.v[k]])

\* a set that overwrites what is there
SetAlways(object, path, value) == Set(object, path, value)

\* if (!_has(projectFiles, path)) _set(projectFiles, path, value)
SetIfAbsent(object, path, value) ==
    IF Has(object, path) THEN object ELSE Set(object, path, value)

\* x || {} on a configuration value
OrEmptyObj(value) == IF value.t = "u" THEN EmptyObj ELSE value

\* a model loaded with the overrides applied in the wrong order
GetModelPluginFirst ==
    MergeWith(MergeWith(inp.model, OrEmptyObj(inp.pluginLM)), OrEmptyObj(inp.projectLM))

\* getModel(locale) of the Google plugin and getJovoModel(locale) of the Alexa
\* plugin: the model from disk, then the project's languageModel for the
\* locale, then the plugin's
GetModel ==
    MergeWith(MergeWith(inp.model, OrEmptyObj(inp.projectLM)), OrEmptyObj(inp.pluginLM))

-----------------------------------------------------------------------------
(* Project files of the Alexa plugin.  A key of a file tree is a sequence:   *)
(* a name, or the characters of a locale code.                               *)

K(name) == <<name>>

AlexaManifest == <<K("skill-package/"), K("skill.json"), K("manifest")>>

EndpointPath == AlexaManifest \o <<K("apis"), K("custom"), K("endpoint")>>

SkillIdPath == <<K(".ask/"), K("ask-states.json"), K("profiles"), K("default"), K("skillId")>>

PublishingInformationPath(locale) ==
    AlexaManifest \o <<K("publishingInformation"), K("locales"), locale>>

PrivacyAndCompliancePath(locale) ==
    AlexaManifest \o <<K("privacyAndCompliance"), K("locales"), locale>>

\* an endpoint is kept as its scheme and the rest; <<>> when there is none
StartsWithArn(endpoint) == endpoint # <<>> /\ endpoint[1] = "arn"

EndpointValue ==
    Obj(K("sslCertificateType") :> (IF StartsWithArn(inp.endpoint) THEN Null ELSE Str("Wildcard"))
        @@ K("uri") :> [t |-> "s", v |-> inp.endpoint])

PublishingInformationValue ==
    Obj(K("summary") :> Str("Sample Short Description")
        @@ K("examplePhrases") :> Arr(<<Str("Alexa open hello world")>>)
        @@ K("keywords") :> Arr(<<Str("hello"), Str("world")>>)
        @@ K("name") :> Str(inp.skillName)
        @@ K("description") :> Str("Sample Full Description")
        @@ K("smallIconUri") :> Str("https://via.placeholder.com/108/09f/09f.png")
        @@ K("largeIconUri") :> Str("https://via.placeholder.com/512/09f/09f.png"))

PrivacyAndComplianceValue ==
    Obj(K("privacyPolicyUrl") :> Str("http://example.com/policy")
        @@ K("termsOfUseUrl") :> Str(""))

\* a tree that always starts from the default files
MergedFilesAlways == Merge(inp.defaults, inp.files)

\* the tree before the generated keys are set: the user's files when the
\* platform folder exists, else the default files merged with them
MergedFiles == IF inp.hasPlatform THEN inp.files ELSE Merge(inp.defaults, inp.files)

RECURSIVE AlexaLocaleKeys(_, _, _)
\* the loop over the resolved locales of createAlexaProjectFiles
AlexaLocaleKeys(projectFiles, locales, i) ==
    IF i > Len(locales) THEN projectFiles
    ELSE AlexaLocaleKeys(
            SetIfAbsent(
                SetIfAbsent(projectFiles, PublishingInformationPath(locales[i]),
                            PublishingInformationValue),
                PrivacyAndCompliancePath(locales[i]), PrivacyAndComplianceValue),
            locales, i + 1)

\* createAlexaProjectFiles: the tree buildDirectory is given, and the tree as
\* it was before the generated keys were set
AlexaProjectTree ==
    LET withEndpoint == IF inp.endpoint # <<>>
                        THEN SetIfAbsent(MergedFiles, EndpointPath, EndpointValue)
                        ELSE MergedFiles
        withSkillId == IF inp.skillId # ""
                       THEN SetIfAbsent(withEndpoint, SkillIdPath, Str(inp.skillId))
                       ELSE withEndpoint
    IN  [before |-> MergedFiles,
         written |-> AlexaLocaleKeys(withSkillId, ResolveAll(inp.locales), 1)]

\* the tree that holds the value at the path and nothing else
Only(path, value) == Set(EmptyObj, path, value)

\* files of the Alexa plugin's configuration
AlexaUserFiles ==
    { EmptyObj,
      Only(EndpointPath, Obj(K("uri") :> Str("https://mine"))),
      Merge(Only(PublishingInformationPath(EN_US), Obj(K("name") :> Str("Mine"))),
            Only(AlexaManifest \o <<K("publishingInformation"), K("distributionCountries")>>,
                 Arr(<<Str("FR")>>))),
      Merge(Only(SkillIdPath, Str("amzn1.ask.skill.mine")),
            Only(AlexaManifest \o <<K("manifestVersion")>>, Str("2.0"))) }

\* default file trees of the Alexa plugin
AlexaDefaults ==
    { Only(AlexaManifest,
           Obj(K("apis") :> Obj(K("custom") :> EmptyObj)
               @@ K("manifestVersion") :> Str("1.0")
               @@ K("publishingInformation") :>
                     Obj(K("locales") :> EmptyObj @@ K("distributionCountries") :> Arr(<<>>)))),
      Only(AlexaManifest,
           Obj(K("apis") :> Obj(K("custom") :> EmptyObj)
               @@ K("manifestVersion") :> Str("1.0")
               @@ K("publishingInformation") :>
                     Obj(K("locales") :> Obj(EN_US :> Obj(K("name") :> Str("Default")))
                         @@ K("distributionCountries") :> Arr(<<Str("US"), Str("DE")>>)))) }

-----------------------------------------------------------------------------
(* Project files of the Google plugin *)

WebhookPath == <<K("webhooks/"), K("ActionsOnGoogleFulfillment.yaml")>>

DefaultHandler ==
    Obj(K("handlers") :> Arr(<<Obj(K("name") :> Str("Jovo"))>>)
        @@ K("httpsEndpoint") :> Obj(K("baseUrl") :> [t |-> "s", v |-> inp.endpoint]))

\* settingsPathArr.join('.'): the folder of a locale other than the default
\* locale is the locale code followed by a slash
SettingsPath(resolvedLocale, defaultLocale) ==
    <<K("settings/")>>
        \o (IF resolvedLocale # defaultLocale THEN <<Append(resolvedLocale, "/")>> ELSE <<>>)
        \o <<K("settings.yaml")>>

\* the key of an invocation object that holds this plugin's name
PluginKey == K("$plugin.constructor.name")

MsgNoInvocationName == "Can't find invocation name for locale"

\* the invocation of the model of a requested locale
InvocationOf(locale) ==
    LET name == [t |-> "s", v |-> <<"invocation of ">> \o locale]
    IN  CASE inp.invocation = "string" -> name
          [] inp.invocation = "perPlatform" -> Obj(PluginKey :> name @@ K("other") :> Str("x"))
          [] inp.invocation = "otherPlatform" -> Obj(K("other") :> Str("x"))

\* getInvocationName: the name, or the error it throws
GetInvocationName(locale) ==
    LET invocation == InvocationOf(locale)
    IN  IF invocation.t = "o"
        THEN IF Member(invocation, PluginKey) = Undef
             THEN [error |-> JovoCliError("googleAssistant", MsgNoInvocationName, locale),
                   name |-> Undef]
             ELSE [error |-> NoErr, name |-> Member(invocation, PluginKey)]
        ELSE [error |-> NoErr, name |-> invocation]

\* the body of the inner loop of createGoogleProjectFiles
GoogleSettings(projectFiles, locale, resolvedLocale, defaultLocale) ==
    LET settingsPath == SettingsPath(resolvedLocale, defaultLocale)
        withDefaults ==
            IF resolvedLocale = defaultLocale
            THEN SetIfAbsent(
                    SetIfAbsent(projectFiles, Append(settingsPath, K("defaultLocale")),
                                LocaleStr(defaultLocale)),
                    Append(settingsPath, K("projectId")), Str(inp.cfgProjectId))
            ELSE projectFiles
        localizedSettingsPath == Append(settingsPath, K("localizedSettings"))
        invocationName == GetInvocationName(locale)
    IN  IF invocationName.error # NoErr
        THEN [error |-> invocationName.error, tree |-> withDefaults]
        ELSE [error |-> NoErr,
              tree |-> SetIfAbsent(
                          SetIfAbsent(withDefaults, Append(localizedSettingsPath, K("displayName")),
                                      invocationName.name),
                          Append(localizedSettingsPath, K("pronunciation")), invocationName.name)]

RECURSIVE GoogleResolvedKeys(_, _, _, _, _)
\* the inner loop, over the resolved locales of one requested locale
GoogleResolvedKeys(state, locale, resolvedLocales, j, defaultLocale) ==
    IF j > Len(resolvedLocales) \/ state.error # NoErr THEN state
    ELSE GoogleResolvedKeys(
            GoogleSettings(state.tree, locale, resolvedLocales[j], defaultLocale),
            locale, resolvedLocales, j + 1, defaultLocale)

RECURSIVE GoogleLocaleKeys(_, _, _, _)
\* the outer loop, over the requested locales
GoogleLocaleKeys(state, locales, i, defaultLocale) ==
    IF i > Len(locales) \/ state.error # NoErr THEN state
    ELSE GoogleLocaleKeys(
            GoogleResolvedKeys(state, locales[i], GetResolvedLocales(locales[i]), 1, defaultLocale),
            locales, i + 1, defaultLocale)

\* createGoogleProjectFiles: the error it throws, the tree buildDirectory is
\* given, and the tree as it was before the generated keys were set
GoogleProjectTree ==
    LET withWebhook == IF inp.endpoint # <<>>
                       THEN SetIfAbsent(MergedFiles, WebhookPath, DefaultHandler)
                       ELSE MergedFiles
        done == GoogleLocaleKeys([error |-> NoErr, tree |-> withWebhook], inp.locales, 1,
                                 GetDefaultLocale(ResolveAll(inp.locales)))
    IN  [error |-> done.error, before |-> MergedFiles, written |-> done.tree]

MainSettings == <<K("settings/"), K("settings.yaml")>>

\* files of the Google plugin's configuration
GoogleUserFiles ==
    { EmptyObj,
      Only(WebhookPath, Obj(K("httpsEndpoint") :> Obj(K("baseUrl") :> Str("https://mine")))),
      Merge(Merge(Only(MainSettings \o <<K("localizedSettings"), K("displayName")>>, Str("Mine")),
                  Only(MainSettings \o <<K("localizedSettings"), K("sampleInvocations")>>,
                       Arr(<<Str("Talk to mine")>>))),
            Only(MainSettings \o <<K("defaultLocale")>>, LocaleStr(EN_US))),
      Merge(Only(<<K("settings/"), Append(EN_GB, "/"), K("settings.yaml"),
                   K("localizedSettings"), K("pronunciation")>>, Str("mine")),
            Only(MainSettings \o <<K("projectId")>>, Str("my-id"))) }

\* default file trees of the Google plugin
GoogleDefaults ==
    { Only(MainSettings, Obj(K("category") :> Str("GAMES_AND_TRIVIA")
                             @@ K("localizedSettings") :> EmptyObj)),
      Only(MainSettings, Obj(K("category") :> Str("GAMES_AND_TRIVIA")
                             @@ K("projectId") :> Str("default-id")
                             @@ K("localizedSettings") :>
                                   Obj(K("displayName") :> Str("Default")
                                       @@ K("sampleInvocations") :>
                                             Arr(<<Str("Talk to default"), Str("Ask default")>>)))) }

\* _get(this.$config, 'files.settings/["settings.yaml"].defaultLocale')
SettingsDefaultLocale(files) ==
    LET path == MainSettings \o <<K("defaultLocale")>>
    IN  IF Has(files, path) THEN Get(files, path).v ELSE Undefined

-----------------------------------------------------------------------------
(* Actions registry of the Google plugin.  A native file is the segments of  *)
(* its path, the last one its name, each segment a sequence of parts.        *)

MainAction == K("actions.intent.MAIN")

\* file.path.pop(): the name, and the path that is left
FileName(file) == file[Len(file)]
Directory(file) == SubSeq(file, 1, Len(file) - 1)

RECURSIVE ReplaceYaml(_)
\* fileName.replace('.yaml', ''): the first occurrence is removed
ReplaceYaml(fileName) ==
    IF fileName = <<>> THEN <<>>
    ELSE IF Head(fileName) = ".yaml" THEN Tail(fileName)
    ELSE <<Head(fileName)>> \o ReplaceYaml(Tail(fileName))

\* the registration of one native file
Register(actions, file) ==
    IF \E i \in 1..Len(Directory(file)) : Directory(file)[i] = K("intents")
    THEN Set(actions, <<K("custom"), ReplaceYaml(FileName(file))>>, EmptyObj)
    ELSE actions

RECURSIVE RegisterFiles(_, _, _)
\* the loop over the native files of buildLanguageModel
RegisterFiles(actions, modelFiles, i) ==
    IF i > Len(modelFiles) THEN actions
    ELSE RegisterFiles(Register(actions, modelFiles[i]), modelFiles, i + 1)

\* _get(this.$config, 'options.actions/')
GetProjectActions == inp.projectActions

\* a registry written without the configured actions
ActionsGeneratedOnly(modelFiles) ==
    RegisterFiles(Obj(K("custom") :> Obj(MainAction :> EmptyObj)), modelFiles, 1)

\* the registry of one resolved locale
Actions(modelFiles) ==
    Merge(RegisterFiles(Obj(K("custom") :> Obj(MainAction :> EmptyObj)), modelFiles, 1),
          GetProjectActions)

ActionsPath == <<K("actions"), K("actions.yaml")>>

\* the files one iteration of buildLanguageModel writes, in order
LocaleWrites(modelFiles) ==
    [i \in 1..Len(modelFiles) |-> [path |-> modelFiles[i], content |-> Str("native")]]
        \o <<[path |-> ActionsPath, content |-> Actions(modelFiles)]>>

RECURSIVE BuildWrites(_, _)
\* the files the locale tasks of a build write, in order: conversions holds the
\* converter's files of every resolved locale of every requested locale
BuildWrites(conversions, i) ==
    IF i > Len(conversions) THEN <<>>
    ELSE LocaleWrites(conversions[i]) \o BuildWrites(conversions, i + 1)

\* the platform directory after the writes: the last write of a path stays
FilesAfter(writes) ==
    [path \in {writes[i].path : i \in 1..Len(writes)} |->
        writes[CHOOSE i \in 1..Len(writes) :
                  /\ writes[i].path = path
                  /\ \A j \in (i + 1)..Len(writes) : writes[j].path # path].content]

\* native files of a converter
NativeFiles ==
    { <<K("custom"), K("intents"), <<"HelpIntent", ".yaml">>>>,
      <<K("custom"), K("intents"), K("de"), <<"YesIntent", ".yaml">>>>,
      <<K("custom"), K("types"), <<"City", ".yaml">>>>,
      <<K("custom"), K("global"), <<"intents", ".yaml">>>>,
      <<K("custom"), K("intents")>> }

\* configured actions of the Google plugin
ProjectActions ==
    { Undef,
      Obj(K("custom") :> Obj(MainAction :> Obj(K("handler") :> Str("welcome")))),
      Obj(K("custom") :> Obj(K("HelpIntent") :> Obj(K("engagement") :> Arr(<<Str("a"), Str("b")>>))
                             @@ K("City") :> Str("mine"))),
      Obj(K("global") :> Arr(<<Str("x")>>) @@ K("custom") :> Obj(K("Mine") :> Null)) }

-----------------------------------------------------------------------------
(* Models saved by the reverse build of the Alexa plugin.  A store maps the  *)
(* locales that have a canonical model to the model.                         *)

\* a start that borrows the model of another locale when the locale has none
StartModelBorrowed(store, locale) ==
    IF locale \in DOMAIN store THEN store[locale]
    ELSE IF DOMAIN store # {} THEN store[CHOOSE l \in DOMAIN store : TRUE]
    ELSE Obj("invocation" :> Str(""))

\* try { modelFile = getModel(locale) } catch { modelFile = { invocation: '' } }
StartModel(store, locale) ==
    IF locale \in DOMAIN store THEN store[locale] ELSE Obj("invocation" :> Str(""))

\* a locale's reverse task: the store it leaves, and whether it threw
ReverseLocale(store, locale) ==
    LET nativeData == inp.nativeData[locale]
    IN  IF nativeData = Undef
        THEN [store |-> store, threw |-> TRUE]
        ELSE [store |-> (locale :> Merge(StartModel(store, locale), nativeData)) @@ store,
              threw |-> FALSE]

RECURSIVE ReverseAll(_, _, _, _)
\* the reverse tasks of the locales, in order
ReverseAll(store, failed, locales, i) ==
    IF i > Len(locales) THEN [store |-> store, failed |-> failed]
    ELSE LET done == ReverseLocale(store, locales[i])
         IN  ReverseAll(done.store, IF done.threw THEN failed \cup {locales[i]} ELSE failed,
                        locales, i + 1)

GermanModel ==
    Obj("invocation" :> Str("mein skill")
        @@ "intents" :> Arr(<<Str("Ja"), Str("Nein"), Str("Hilfe")>>)
        @@ "version" :> Str("4.0"))

\* canonical models of the project before the reverse build
ReverseStores ==
    { <<>>,
      DE_DE :> GermanModel,
      DE_DE :> GermanModel
        @@ EN_US :> Obj("invocation" :> Str("old skill")
                        @@ "intents" :> Arr(<<Str("A"), Str("B"), Str("C")>>)
                        @@ "entityTypes" :> Arr(<<Str("T")>>)) }

\* what JovoModelAlexa.exportJovoModel() returns
NativeData ==
    { Undef,
      Obj("invocation" :> Str("my skill") @@ "intents" :> Arr(<<Str("Yes"), Str("No")>>)),
      Obj("intents" :> Arr(<<Str("Help")>>)),
      Obj("invocation" :> Str("my skill") @@ "intents" :> Arr(<<>>)
          @@ "alexa" :> Obj("interactionModel" :> Obj("prompts" :> Arr(<<Str("p")>>)))) }

-----------------------------------------------------------------------------
(* Inputs of the merges *)

\* canonical models on disk
DiskModels ==
    { Obj("invocation" :> Str("app") @@ "intents" :> Arr(<<Str("1"), Str("2")>>)),
      Obj("invocation" :> Str("app") @@ "intents" :> Arr(<<Str("1"), Str("2")>>)
            @@ "meta" :> Obj("v" :> Str("1") @@ "tags" :> Arr(<<Str("x")>>))) }

\* languageModel overrides of a locale; Undef when none is configured
Fragments ==
    { Undef,
      EmptyObj,
      Obj("intents" :> Arr(<<Str("2"), Str("3")>>)),
      Obj("intents" :> Arr(<<Str("3"), Str("1")>>) @@ "invocation" :> Str("other")),
      Obj("invocation" :> Str("third")),
      Obj("intents" :> Str("none")),
      Obj("meta" :> Obj("v" :> Str("2"))),
      Obj("meta" :> Obj("tags" :> Arr(<<Str("y"), Str("x")>>) @@ "w" :> Str("3"))),
      Obj("meta" :> Str("flat")),
      Obj("extra" :> Arr(<<Str("9")>>)) }

\* the pipeline's inputs, fixed while a merge is looked at
MergeBase ==
    [ order |-> <<"alexa", "googleAssistant">>,
      platform |-> NoFilter,
      clean |-> FALSE,
      flagProjectId |-> "",
      cfgProjectId |-> "cfg-id",
      locales |-> <<EN_US>>,
      table |-> NoTable,
      settingsDefaultLocale |-> Undefined,
      cfgDefaultLocale |-> Undefined,
      supportedAlexa |-> {EN_US, EN_GB},
      supportedGoogle |-> {EN_US, EN_GB},
      existed |-> FALSE,
      canon |-> {} ]

ModelCases == [case : {"model"}, model : DiskModels, projectLM : Fragments, pluginLM : Fragments]

AlexaFileCases ==
    [case : {"alexaFiles"}, hasPlatform : BOOLEAN, files : AlexaUserFiles,
     defaults : AlexaDefaults, endpoint : {<<>>, <<"https", "://webhook">>, <<"arn", ":aws:fn">>},
     skillId : {"", "amzn1.ask.skill.1"}, skillName : {"my-skill"}]

\* requested locales and resolution tables of the project-file cases
FileLocales ==
    { [MergeBase EXCEPT !.locales = <<EN_US>>],
      [MergeBase EXCEPT !.locales = <<EN, EN_US>>, !.table = TableEn] }

GoogleFileCases ==
    [case : {"googleFiles"}, hasPlatform : BOOLEAN, files : GoogleUserFiles,
     defaults : GoogleDefaults, endpoint : {<<>>, <<"https", "://webhook">>},
     invocation : {"string", "perPlatform", "otherPlatform"}]

ActionCases ==
    [case : {"actions"}, modelFiles : DistinctSeqsOf(NativeFiles, 0, 2),
     projectActions : ProjectActions]

ReverseCases ==
    UNION { [case : {"reverse"}, models : ReverseStores, locales : {locales},
             nativeData : [Elems(locales) -> NativeData]] :
            locales \in DistinctSeqsOf({EN_US, DE_DE}, 1, 2) }

\* the converter's files of one or two resolved locales
BuildCases ==
    [case : {"build"},
     conversions : SeqsOf(DistinctSeqsOf({f \in NativeFiles : Len(f) > 2}, 0, 2), 1, 2),
     projectActions : {Undef, Obj(K("custom") :> Obj(K("Mine") :> Null))}]

MergeInputs ==
    {MergeBase @@ c : c \in ModelCases \cup ActionCases \cup BuildCases}
        \cup {c @@ [MergeBase EXCEPT !.canon = DOMAIN c.models] : c \in ReverseCases}
        \cup {c @@ b : c \in AlexaFileCases, b \in FileLocales}
        \cup {c @@ [b EXCEPT !.settingsDefaultLocale = SettingsDefaultLocale(c.files)] :
                    c \in GoogleFileCases, b \in FileLocales}

-----------------------------------------------------------------------------
(* Specification of the merges: each function is applied to inputs drawn     *)
(* from MergeInputs and its result kept in res.                              *)

InitMerge == inp \in MergeInputs /\ Idle

Computed(op, value) ==
    /\ res.op = "none"
    /\ res' = [NoRes EXCEPT !.op = op, !.value = value]
    /\ UNCHANGED <<inp, registry, pc, evIdx, pending, active, hpc, tasks, ctx, disk, proj,
                   err, log, passed>>

ApplyGetModel == inp.case = "model" /\ Computed("getModel", GetModel)

ApplyAlexaProjectFiles ==
    inp.case = "alexaFiles" /\ Computed("alexaProjectFiles", AlexaProjectTree)

ApplyGoogleProjectFiles ==
    /\ inp.case = "googleFiles"
    /\ res.op = "none"
    /\ res' = [NoRes EXCEPT !.op = "googleProjectFiles",
                            !.error = GoogleProjectTree.error,
                            !.value = [before |-> GoogleProjectTree.before,
                                       written |-> GoogleProjectTree.written]]
    /\ UNCHANGED <<inp, registry, pc, evIdx, pending, active, hpc, tasks, ctx, disk, proj,
                   err, log, passed>>

ApplyBuildLanguageModel ==
    inp.case = "actions" /\ Computed("buildLanguageModel", LocaleWrites(inp.modelFiles))

ApplyReverse ==
    inp.case = "reverse" /\ Computed("buildReverse", ReverseAll(inp.models, {}, inp.locales, 1))

ApplyBuild ==
    inp.case = "build" /\ Computed("build", FilesAfter(BuildWrites(inp.conversions, 1)))

NextMerge ==
    \/ ApplyGetModel
    \/ ApplyBuild
    \/ ApplyReverse
    \/ ApplyBuildLanguageModel
    \/ ApplyAlexaProjectFiles
    \/ ApplyGoogleProjectFiles

SpecMerge == InitMerge /\ [][NextMerge]_vars


-----------------------------------------------------------------------------
(* Properties of the pipeline *)

EventIndex(event) == CHOOSE i \in 1..Len(Events) : Events[i] = event

PluginIndex(plugin) == CHOOSE i \in 1..Len(inp.order) : inp.order[i] = plugin

IsPrefix(a, b) == Len(a) <= Len(b) /\ a = SubSeq(b, 1, Len(a))

Last(s) == s[Len(s)]

\* names of the plugin's handlers started for the event, in the order started
Started(plugin, event) ==
    LET mine == SelectSeq(log, LAMBDA x : x.plugin = plugin /\ x.event = event)
    IN  [i \in 1..Len(mine) |-> mine[i].name]

\* names of the plugin's handlers still registered for the event, in order
StillRegistered(plugin, event) ==
    LET mine == SelectSeq(registry[event], LAMBDA h : h.plugin = plugin)
    IN  [i \in 1..Len(mine) |-> mine[i].name]

\* the handler was started and has completed
Finished(plugin, name) ==
    /\ \E i \in 1..Len(log) : log[i].plugin = plugin /\ log[i].name = name
    /\ Handler(plugin, name) \notin active

\* the handler lists the two install() methods declare, written out
Declared(plugin, event) ==
    IF plugin = "alexa"
    THEN CASE event = "install" -> <<>>
           [] event = "parse" -> <<"checkForPlatform">>
           [] event = "before.build" -> <<"checkForCleanBuild", "validateLocales", "validateModels">>
           [] event = "build" -> <<"build">>
           [] event = "reverse.build" -> <<"buildReverse">>
    ELSE CASE event = "install" -> <<"addCliOptions">>
           [] event = "parse" -> <<"checkForPlatform">>
           [] event = "before.build" -> <<"updatePluginContext", "checkForCleanBuild",
                                          "validateLocales", "validateModels">>
           [] event = "build" -> <<"build">>
           [] event = "reverse.build" -> <<"buildReverse">>

\* --platform is set and does not name the plugin
Excluded(plugin) == inp.platform.set /\ plugin \notin inp.platform.ids

\* files the plugin wrote into its platform folder in this invocation
Written(plugin) == disk[plugin].files \ {OldFile}

(* C1: handlers run one at a time, in registration order, each finishing     *)
(* before the next starts; events fire in the order install, parse,          *)
(* before.build, build, reverse.build; for before.build the Google plugin    *)
(* runs updatePluginContext, checkForCleanBuild, validateLocales,            *)
(* validateModels and the Alexa plugin checkForCleanBuild, validateLocales,  *)
(* validateModels, in that order; no two handlers are active at once.        *)
C1_HandlersInOrder ==
    /\ Cardinality(active) <= 1
    /\ active # {} => log # <<>> /\ active = {Handler(Last(log).plugin, Last(log).name)}
    /\ \A i \in 1..(Len(log) - 1) :
          /\ EventIndex(log[i].event) <= EventIndex(log[i + 1].event)
          /\ log[i].event = log[i + 1].event =>
                PluginIndex(log[i].plugin) <= PluginIndex(log[i + 1].plugin)
    /\ \A plugin \in Plugins, event \in EventSet :
          IsPrefix(Started(plugin, event), Declared(plugin, event))

C1_Witness ==
    /\ pc = "done"
    /\ Started("googleAssistant", "before.build") =
          <<"updatePluginContext", "checkForCleanBuild", "validateLocales", "validateModels">>
    /\ Started("alexa", "before.build") =
          <<"checkForCleanBuild", "validateLocales", "validateModels">>
    /\ Started("alexa", "reverse.build") = <<"buildReverse">>

(* C2: a plugin that --platform excludes unregisters itself at parse and     *)
(* none of its before.build, build or reverse.build handlers is invoked;     *)
(* a plugin that is not excluded keeps every handler registered.             *)
C2_PlatformFilter ==
    \A plugin \in Plugins :
        IF Excluded(plugin)
        THEN /\ \A i \in 1..Len(log) :
                    log[i].plugin = plugin => log[i].event \in {"install", "parse"}
             /\ Finished(plugin, "checkForPlatform") =>
                    \A event \in EventSet : StillRegistered(plugin, event) = <<>>
        ELSE \A event \in EventSet : StillRegistered(plugin, event) = Declared(plugin, event)

C2_Witness ==
    /\ pc = "done"
    /\ Excluded("alexa")
    /\ Finished("alexa", "checkForPlatform")
    /\ Finished("googleAssistant", "build")
    /\ Finished("googleAssistant", "buildReverse")

(* C3: when a handler throws, no later handler of the event is invoked and   *)
(* the error reaches the driver; when updatePluginContext finds no project   *)
(* id, checkForCleanBuild, validateLocales and validateModels of the Google  *)
(* plugin never run and its platform folder is as it was.                    *)
C3_ThrowStopsEvent ==
    /\ err # NoErr <=> pc = "failed"
    /\ err # NoErr =>
          /\ pending = <<>>
          /\ active = {}
          /\ log # <<>>
          /\ Last(log).plugin = err.plugin
          /\ Last(log).event = CurrentEvent
    /\ (inp.flagProjectId = "" /\ inp.cfgProjectId = ""
            /\ Finished("googleAssistant", "updatePluginContext")) =>
          /\ err = JovoCliError("googleAssistant", MsgNoProjectId, <<>>)
          /\ Last(log).name = "updatePluginContext"
          /\ Started("googleAssistant", "before.build") = <<"updatePluginContext">>
          /\ disk["googleAssistant"] = DiskBefore(inp.existed)["googleAssistant"]

C3_Witness ==
    /\ err = JovoCliError("googleAssistant", MsgNoProjectId, <<>>)
    /\ inp.clean
    /\ inp.existed
    /\ OldFile \in disk["googleAssistant"].files
    /\ registry["before.build"] # <<>>
    /\ Last(registry["before.build"]).plugin = "googleAssistant"

(* C4: an error thrown in the Alexa plugin's before.build handlers leaves    *)
(* the Google plugin's handlers of the same event running.                   *)
C4_OtherPlatformUnaffected ==
    (/\ pc = "failed"
     /\ err.plugin = "alexa"
     /\ CurrentEvent = "before.build"
     /\ ~Excluded("googleAssistant"))
        => Started("googleAssistant", "before.build") # <<>>

\* what each plugin's validateLocales accepts, stated on the resolved locales
LocalesAcceptable(plugin) ==
    LET resolved == Elems(ResolveAll(inp.locales))
    IN  IF plugin = "alexa"
        THEN resolved \subseteq inp.supportedAlexa
        ELSE /\ resolved \subseteq inp.supportedGoogle
             /\ \A l \in resolved :
                   Substring02(l) \in inp.supportedGoogle => Substring02(l) \in resolved

(* C5: a plugin writes no file into its platform folder unless its locale    *)
(* validation and its model validation of every requested locale completed   *)
(* without error earlier in the invocation; requesting de-DE against the     *)
(* supported list [en-US, en-GB] fails naming de-DE before any file is       *)
(* written.                                                                  *)
C5_NoWriteBeforeValidation ==
    /\ \A plugin \in Plugins :
          Written(plugin) # {} =>
              /\ {"locales", "models"} \subseteq passed[plugin]
              /\ LocalesAcceptable(plugin)
    /\ (/\ inp.locales = <<DE_DE>>
        /\ DE_DE \notin DOMAIN inp.table
        /\ inp.supportedAlexa = {EN_US, EN_GB}
        /\ Finished("alexa", "validateLocales")) =>
          /\ err = JovoCliError("alexa", MsgAlexaUnsupported, DE_DE)
          /\ Written("alexa") = {}

C5_Witness ==
    /\ ProjectFile \in Written("alexa")
    /\ ModelFile(EN_GB) \in Written("alexa")
    /\ ProjectFile \in Written("googleAssistant")
    /\ ModelFile(EN_GB) \in Written("googleAssistant")


-----------------------------------------------------------------------------
(* Properties of the locale functions *)

MinOf(S) == CHOOSE i \in S : \A j \in S : i <= j

\* positions of the resolved locales the Alexa plugin does not support
AlexaOffenders(resolved) == {i \in 1..Len(resolved) : resolved[i] \notin inp.supportedAlexa}

\* the locale's 2-letter prefix is supported but not among the resolved locales
MissesGeneric(resolved, l) ==
    Substring02(l) \in inp.supportedGoogle /\ Substring02(l) \notin Elems(resolved)

\* positions of the resolved locales the Google plugin rejects
GoogleOffenders(resolved) ==
    {i \in 1..Len(resolved) :
        MissesGeneric(resolved, resolved[i]) \/ resolved[i] \notin inp.supportedGoogle}

(* C6: validateLocales fails fast: with several unsupported resolved locales *)
(* it throws one error, naming the first offender in resolution order, and   *)
(* looks at no locale after it.                                              *)
C6_FailFast ==
    LET resolved == ResolveAll(inp.locales)
    IN  /\ res.op = "validateAlexa" =>
              LET bad == AlexaOffenders(resolved)
              IN  IF bad = {}
                  THEN res.error = NoErr /\ res.examined = Len(resolved)
                  ELSE /\ res.error = JovoCliError("alexa", MsgAlexaUnsupported, resolved[MinOf(bad)])
                       /\ res.examined = MinOf(bad)
        /\ res.op = "validateGoogle" =>
              LET bad == GoogleOffenders(resolved)
              IN  IF bad = {}
                  THEN res.error = NoErr /\ res.examined = Len(resolved)
                  ELSE /\ res.error.plugin = "googleAssistant"
                       /\ res.error.locale = resolved[MinOf(bad)]
                       /\ res.examined = MinOf(bad)

C6_Witness ==
    LET resolved == ResolveAll(inp.locales)
        bad == AlexaOffenders(resolved)
    IN  /\ res.op = "validateAlexa"
        /\ Cardinality({resolved[i] : i \in bad}) >= 2
        /\ MinOf(bad) > 1
        /\ res.error.locale = resolved[MinOf(bad)]
        /\ res.examined < Len(resolved)

RECURSIVE DedupFrom(_, _, _)
\* duplicates removed, first-seen order kept
DedupFrom(s, i, acc) ==
    IF i > Len(s) THEN acc
    ELSE DedupFrom(s, i + 1, IF s[i] \in Elems(acc) THEN acc ELSE Append(acc, s[i]))

RECURSIVE Flattened(_, _)
\* the per-token resolutions, one after the other
Flattened(locales, i) ==
    IF i > Len(locales) THEN <<>>
    ELSE (IF locales[i] \in DOMAIN inp.table THEN inp.table[locales[i]] ELSE <<locales[i]>>)
         \o Flattened(locales, i + 1)

(* C7: the resolved locale list is the per-token resolutions flattened into  *)
(* one ordered list with duplicates removed, first-seen order preserved;     *)
(* a token with no table entry resolves to itself.                           *)
C7_ResolvedDeduplicated ==
    res.op = "resolve" =>
        /\ res.locales = DedupFrom(Flattened(inp.locales, 1), 1, <<>>)
        /\ \A i \in 1..Len(inp.locales) :
              inp.locales[i] \notin DOMAIN inp.table =>
                  GetResolvedLocales(inp.locales[i]) = <<inp.locales[i]>>

(* C8: the Google plugin's validateLocales succeeds exactly when every       *)
(* resolved locale is supported and every supported 2-letter prefix of a     *)
(* resolved locale is itself resolved, and reports a missing generic locale  *)
(* before the locale's own support; the Alexa plugin's succeeds exactly when *)
(* every resolved locale is a member of its supported locales.               *)
C8_ValidationCriteria ==
    LET resolved == ResolveAll(inp.locales)
    IN  /\ res.op = "validateGoogle" =>
              /\ res.error = NoErr <=>
                    /\ \A l \in Elems(resolved) : l \in inp.supportedGoogle
                    /\ \A l \in Elems(resolved) :
                          Substring02(l) \in inp.supportedGoogle => Substring02(l) \in Elems(resolved)
              /\ res.error # NoErr =>
                    res.error.msg = IF MissesGeneric(resolved, res.error.locale)
                                    THEN MsgRequiresGeneric
                                    ELSE MsgGoogleUnsupported
        /\ res.op = "validateAlexa" =>
              (res.error = NoErr <=> \A l \in Elems(resolved) : l \in inp.supportedAlexa)

C8_Witness ==
    /\ res.op = "validateGoogle"
    /\ res.error.msg = MsgRequiresGeneric
    /\ res.error.locale \notin inp.supportedGoogle
    /\ Substring02(res.error.locale) \in inp.supportedGoogle

(* C9: the default locale of the Google build is the configured one          *)
(* (settings.yaml defaultLocale first, then the plugin's defaultLocale);     *)
(* with none configured it is the first resolved locale containing "en",     *)
(* and the first resolved locale when none contains "en".                    *)
C9_DefaultLocale ==
    res.op = "defaultLocale" =>
        LET resolved == ResolveAll(inp.locales)
            english == {i \in 1..Len(resolved) : IncludesEn(resolved[i])}
        IN  IF ~Falsy(inp.settingsDefaultLocale) THEN res.locale = inp.settingsDefaultLocale
            ELSE IF ~Falsy(inp.cfgDefaultLocale) THEN res.locale = inp.cfgDefaultLocale
            ELSE IF resolved = <<>> THEN TRUE
            ELSE IF english # {} THEN res.locale = resolved[MinOf(english)]
            ELSE res.locale = resolved[1]

C9_Witness ==
    /\ res.op = "defaultLocale"
    /\ Falsy(inp.settingsDefaultLocale)
    /\ Falsy(inp.cfgDefaultLocale)
    /\ Len(ResolveAll(inp.locales)) = 2
    /\ ResolveAll(inp.locales)[1] = FR_FR
    /\ res.locale = SV_EN

\* locale en, table {en: [en-US, en-GB]}, both supported, no configured default
ScenarioEn ==
    /\ inp.locales = <<EN>>
    /\ inp.table = TableEn
    /\ {EN_US, EN_GB} \subseteq inp.supportedGoogle
    /\ Falsy(inp.settingsDefaultLocale)
    /\ Falsy(inp.cfgDefaultLocale)

\* the tasks of the plugin's build() are over, none failed, and the converter
\* returned files for every locale
BuildSucceeded(plugin) ==
    /\ hpc = "tasks"
    /\ active = {Handler(plugin, "build")}
    /\ ~HasRunnable
    /\ \A i \in 1..Len(tasks) :
          /\ tasks[i].status # "failed"
          /\ \A l \in DOMAIN tasks[i].converted : tasks[i].converted[l] = "files"

\* the Google plugin passed validation, chose en-US and built both locales
ScenarioEnOutcome ==
    /\ Finished("googleAssistant", "validateLocales") => "locales" \in passed["googleAssistant"]
    /\ Started("googleAssistant", "build") # <<>> /\ ~Running("googleAssistant", "build") =>
          ctx.defaultLocale = EN_US
    /\ BuildSucceeded("googleAssistant") =>
          {ModelFile(EN_US), ModelFile(EN_GB)} \subseteq Written("googleAssistant")

C11_ConfigurationErrors ==
    /\ (/\ Started("googleAssistant", "build") # <<>>
        /\ ~Running("googleAssistant", "build")
        /\ Falsy(inp.settingsDefaultLocale)
        /\ Falsy(inp.cfgDefaultLocale)
        /\ ResolveAll(inp.locales) = <<>>) =>
          err = JovoCliError("googleAssistant", MsgNoDefaultLocale, <<>>)
    /\ (/\ inp.flagProjectId = ""
        /\ inp.cfgProjectId = ""
        /\ Finished("googleAssistant", "updatePluginContext")) =>
          /\ err = JovoCliError("googleAssistant", MsgNoProjectId, <<>>)
          /\ CurrentEvent = "before.build"
          /\ "models" \notin passed["googleAssistant"]

(* C12: when the project has no model files for the requested locales,       *)
(* build() disables the Interaction Model task: it is reported skipped,      *)
(* none of its per-locale children is run, and the sibling Project Files     *)
(* task still runs to completion.                                            *)
C12_DisabledModelTask ==
    \A plugin \in Plugins :
        (/\ hpc = "tasks"
         /\ active = {Handler(plugin, "build")}
         /\ ~HasModelFiles(inp.locales)) =>
            /\ tasks[2].status = "skipped"
            /\ \A i \in 3..Len(tasks) : tasks[i].status = "pending"
            /\ ~HasRunnable => tasks[1].status = "ok"

\* a leaf the runner is to visit: not inside a disabled group
Visited(i) ==
    /\ tasks[i].kind # "group"
    /\ IF tasks[i].parent = 0 THEN TRUE ELSE tasks[tasks[i].parent].status # "skipped"

(* C13: when a child task fails the runner reports it failed and still runs  *)
(* every later sibling in declared order, and the handler's run fails if     *)
(* any subtask failed.                                                       *)
C13_SiblingsContinue ==
    [][/\ (hpc \in {"tasks", "backup"} /\ hpc' = "none") =>
            /\ \A i \in 1..Len(tasks) : Visited(i) => tasks[i].status \in {"ok", "failed"}
            /\ Failed # {} <=> pc' = "failed"
            /\ Failed # {} => err'.msg = tasks[FirstFailed].msg
       /\ \A i \in 1..Len(tasks) :
            (/\ hpc = "tasks"
             /\ hpc' = "tasks"
             /\ Len(tasks') = Len(tasks)
             /\ tasks[i].status = "pending"
             /\ tasks'[i].status # "pending") =>
                \A j \in 1..(i - 1) : Visited(j) => tasks[j].status \in {"ok", "failed"}
      ]_vars

C13_Witness ==
    /\ hpc = "tasks"
    /\ \E i, j \in 1..Len(tasks) :
          /\ i < j
          /\ tasks[i].parent = tasks[j].parent
          /\ tasks[i].status = "failed"
          /\ tasks[j].status = "ok"

(* C14: each task's action executes at most once, and a group's children     *)
(* run in the order they were added: Project Files before Interaction        *)
(* Model, locale tasks in requested-locale order.                            *)
C14_TasksRunOnce ==
    /\ \A i \in 1..Len(tasks) :
          /\ tasks[i].runs <= 1
          /\ tasks[i].runs = 1 <=> tasks[i].status \in {"ok", "failed"}
          /\ tasks[i].kind = "group" => tasks[i].runs = 0
    /\ \A i, j \in 1..Len(tasks) :
          (i < j /\ Visited(i) /\ tasks[j].runs = 1) => tasks[i].runs = 1
    /\ \A plugin \in Plugins :
          (hpc = "tasks" /\ active = {Handler(plugin, "build")}) =>
              /\ tasks[1].kind = "projectFiles"
              /\ Len(tasks) = 2 + Len(inp.locales)
              /\ \A i \in 1..Len(inp.locales) :
                    /\ tasks[2 + i].locale = inp.locales[i]
                    /\ tasks[2 + i].runs = 1 => tasks[1].runs = 1
    /\ \A plugin \in Plugins :
          (hpc = "tasks" /\ active = {Handler(plugin, "validateModels")}) =>
              [i \in 1..Len(tasks) |-> tasks[i].locale] = inp.locales

C14_Witness ==
    /\ hpc = "tasks"
    /\ active = {Handler("alexa", "build")}
    /\ Len(inp.locales) = 2
    /\ ~HasRunnable
    /\ \A i \in {1, 3, 4} : tasks[i].runs = 1

\* the first resolved locale of the task the converter returned no file for
FirstNotConverted(i) ==
    LET resolved == GetResolvedLocales(tasks[i].locale)
    IN  resolved[FirstWithout(resolved, tasks[i].converted, {"empty", "none"})]

(* C18: when the converter returns zero files, or no file list, for a        *)
(* resolved locale, the locale's build fails on every platform with a        *)
(* conversion error naming the locale and writes no model file for it.       *)
C18_EmptyConversionFails ==
    \A i \in 1..Len(tasks) :
        (/\ tasks[i].kind = "model"
         /\ tasks[i].runs = 1
         /\ \E l \in DOMAIN tasks[i].converted : tasks[i].converted[l] # "files") =>
            /\ tasks[i].status = "failed"
            /\ tasks[i].named = FirstNotConverted(i)

-----------------------------------------------------------------------------
(* Properties of the merges *)

\* the values the fragments hold at the key, in the fragments' order
ValuesAt(frags, key) ==
    LET present == SelectSeq(frags, LAMBDA f : key \in Keys(f))
    IN  [i \in 1..Len(present) |-> present[i].v[key]]

RECURSIVE Concat(_)
Concat(arrays) == IF arrays = <<>> THEN <<>> ELSE Head(arrays).v \o Concat(Tail(arrays))

RECURSIVE Combined(_)
\* what a key holds after the values were merged onto it one after the other:
\* the last value when that is a string; otherwise the arrays that end the
\* list concatenated without duplicates, or the objects that end it combined
\* key by key
Combined(values) ==
    LET n == Len(values)
        last == values[n]
        other == {i \in 1..n : values[i].t # last.t}
        from == IF other = {} THEN 1 ELSE 1 + CHOOSE i \in other : \A j \in other : j <= i
        run == SubSeq(values, from, n)
    IN  CASE last.t = "s" -> last
          [] last.t = "a" -> Arr(DedupFrom(Concat(run), 1, <<>>))
          [] last.t = "o" ->
                Obj([k \in UNION {Keys(run[i]) : i \in 1..Len(run)} |->
                        Combined(ValuesAt(run, k))])

(* C15: the model handed to conversion is the model from disk merged with    *)
(* the project's languageModel override and then with the plugin's: nested   *)
(* mappings deep-merge, the later fragment wins a scalar conflict, and two   *)
(* arrays are concatenated with duplicates removed in first-seen order, so   *)
(* {a:[1,2]} merged with {a:[2,3]} gives {a:[1,2,3]}.                         *)
C15_ModelMerge ==
    /\ res.op = "getModel" =>
          res.value = Combined(<<inp.model, OrEmptyObj(inp.projectLM), OrEmptyObj(inp.pluginLM)>>)
    /\ MergeWith(Obj("a" :> Arr(<<Str("1"), Str("2")>>)), Obj("a" :> Arr(<<Str("2"), Str("3")>>)))
          = Obj("a" :> Arr(<<Str("1"), Str("2"), Str("3")>>))

C15_Witness ==
    /\ res.op = "getModel"
    /\ Member(inp.projectLM, "invocation") = Str("other")
    /\ Member(inp.pluginLM, "invocation") = Str("third")
    /\ Member(inp.projectLM, "intents") = Arr(<<Str("3"), Str("1")>>)
    /\ res.value = Obj("invocation" :> Str("third")
                       @@ "intents" :> Arr(<<Str("1"), Str("2"), Str("3")>>))

RECURSIVE LeafPaths(_)
\* the paths of a tree that end at a value other than a non-empty object
LeafPaths(value) ==
    IF Keys(value) = {} THEN {<<>>}
    ELSE UNION {{<<k>> \o p : p \in LeafPaths(value.v[k])} : k \in Keys(value)}

\* the paths the user's files set to a string, null or an array
UserSetPaths == {p \in LeafPaths(inp.files) : Get(inp.files, p).t \in {"s", "n", "a"}}

ProjectFilesBuilt == res.op \in {"alexaProjectFiles", "googleProjectFiles"} /\ res.error = NoErr

(* C16: for every path the user's file overrides set, the value at that      *)
(* path in the project file tree that is written is the user's value,        *)
(* whatever the default tree holds there.                                    *)
C16_NonClobbering ==
    ProjectFilesBuilt =>
        \A p \in UserSetPaths : Get(res.value.written, p) = Get(inp.files, p)

Gen(path, value) == [path |-> path, value |-> value]

RECURSIVE FlatMap(_, _, _)
\* the concatenation of Op(list[i]) for i, i + 1, ...
FlatMap(Op(_), list, i) ==
    IF i > Len(list) THEN <<>> ELSE Op(list[i]) \o FlatMap(Op, list, i + 1)

AlexaGeneratedOf(locale) ==
    <<Gen(PublishingInformationPath(locale), PublishingInformationValue),
      Gen(PrivacyAndCompliancePath(locale), PrivacyAndComplianceValue)>>

\* the generated keys of the Alexa plugin, in the order they are set
AlexaGenerated ==
    (IF inp.endpoint # <<>> THEN <<Gen(EndpointPath, EndpointValue)>> ELSE <<>>)
        \o (IF inp.skillId # "" THEN <<Gen(SkillIdPath, Str(inp.skillId))>> ELSE <<>>)
        \o FlatMap(AlexaGeneratedOf, ResolveAll(inp.locales), 1)

GoogleGeneratedOf(locale) ==
    LET defaultLocale == GetDefaultLocale(ResolveAll(inp.locales))
        name == [t |-> "s", v |-> <<"invocation of ">> \o locale]
        OfResolved(resolvedLocale) ==
            LET settingsPath == SettingsPath(resolvedLocale, defaultLocale)
            IN  (IF resolvedLocale = defaultLocale
                 THEN <<Gen(settingsPath \o <<K("defaultLocale")>>, LocaleStr(defaultLocale)),
                        Gen(settingsPath \o <<K("projectId")>>, Str(inp.cfgProjectId))>>
                 ELSE <<>>)
                \o <<Gen(settingsPath \o <<K("localizedSettings"), K("displayName")>>, name),
                      Gen(settingsPath \o <<K("localizedSettings"), K("pronunciation")>>, name)>>
    IN  FlatMap(OfResolved, GetResolvedLocales(locale), 1)

\* the generated keys of the Google plugin, in the order they are set
GoogleGenerated ==
    (IF inp.endpoint # <<>> THEN <<Gen(WebhookPath, DefaultHandler)>> ELSE <<>>)
        \o FlatMap(GoogleGeneratedOf, inp.locales, 1)

Generated == IF res.op = "alexaProjectFiles" THEN AlexaGenerated ELSE GoogleGenerated

\* the value of the first generated key with the path
FirstGenerated(path) ==
    Generated[CHOOSE i \in 1..Len(Generated) :
                /\ Generated[i].path = path
                /\ \A j \in 1..(i - 1) : Generated[j].path # path].value

(* C17: when the project files are constructed, a generated key whose path   *)
(* is present before the set step keeps its existing value, a generated key  *)
(* whose path is absent gets the value generated first for it, and no other  *)
(* path changes: every value of the tree before the step is unchanged and    *)
(* every new path lies at or under a generated path that was absent.         *)
C17_SetOnlyIfAbsent ==
    ProjectFilesBuilt =>
        LET before == res.value.before
            written == res.value.written
            paths == {Generated[i].path : i \in 1..Len(Generated)}
        IN  /\ \A g \in paths :
                    Get(written, g) = IF Has(before, g) THEN Get(before, g) ELSE FirstGenerated(g)
            /\ \A p \in LeafPaths(before) :
                    Get(before, p).t # "o" => Get(written, p) = Get(before, p)
            /\ \A p \in LeafPaths(written) \ LeafPaths(before) :
                    \E g \in paths : IsPrefix(g, p) /\ ~Has(before, g)

\* a generated key was present with another value and kept, and another was absent and set
C17_Witness ==
    /\ ProjectFilesBuilt
    /\ \E i, j \in 1..Len(Generated) :
            /\ Has(res.value.before, Generated[i].path)
            /\ Get(res.value.before, Generated[i].path) # Generated[i].value
            /\ Get(res.value.written, Generated[i].path) = Get(res.value.before, Generated[i].path)
            /\ ~Has(res.value.before, Generated[j].path)
            /\ Get(res.value.written, Generated[j].path) = Generated[j].value

\* the native files whose directory has an 'intents' segment
IntentFiles ==
    {f \in Elems(inp.modelFiles) : \E i \in 1..(Len(f) - 1) : f[i] = K("intents")}

\* the name of a native file up to its '.yaml'
NameOf(file) == SelectSeq(file[Len(file)], LAMBDA part : part # ".yaml")

(* C19: the writes of the Google build for one resolved locale end with the  *)
(* actions registry, after every native file of the locale; the registry     *)
(* holds actions.intent.MAIN, an entry named after every native file under   *)
(* an 'intents' directory, and every configured entry with the configured    *)
(* value, a configured array kept as it is.                                  *)
C19_ActionsRegistry ==
    res.op = "buildLanguageModel" =>
        LET writes == res.value
            n == Len(inp.modelFiles)
            actions == writes[Len(writes)].content
            configured == IF inp.projectActions = Undef THEN EmptyObj ELSE inp.projectActions
        IN  /\ Len(writes) = n + 1
            /\ writes[n + 1].path = ActionsPath
            /\ \A i \in 1..n : writes[i].path = inp.modelFiles[i]
            /\ Has(actions, <<K("custom"), MainAction>>)
            /\ \A f \in IntentFiles : Has(actions, <<K("custom"), NameOf(f)>>)
            /\ \A p \in LeafPaths(configured) :
                    IF Get(configured, p).t = "o"
                    THEN Get(actions, p).t = "o"
                    ELSE Get(actions, p) = Get(configured, p)

\* a registry with an intent file's entry next to a file that is not registered,
\* and a configured entry that replaced a generated one
C19_Witness ==
    /\ res.op = "buildLanguageModel"
    /\ IntentFiles # {} /\ IntentFiles # Elems(inp.modelFiles)
    /\ inp.projectActions # Undef
    /\ LET actions == res.value[Len(res.value)].content
       IN  /\ Get(actions, <<K("custom"), K("HelpIntent"), K("engagement")>>)
                    = Arr(<<Str("a"), Str("b")>>)
           /\ \A f \in IntentFiles : Has(actions, <<K("custom"), NameOf(f)>>)

\* the locales reverse-built without a canonical model and with parsed data
NewlyReversed ==
    {l \in Elems(inp.locales) : l \notin DOMAIN inp.models /\ inp.nativeData[l] # Undef}

(* C20: after a reverse build, the model saved for a locale that had no      *)
(* canonical model holds every value of the parsed data and nothing else     *)
(* but an empty invocation when the parsed data has none: no field of        *)
(* another locale's model or of a locale processed before it.                *)
C20_FreshModel ==
    res.op = "buildReverse" =>
        \A l \in NewlyReversed :
            LET saved == res.value.store[l]
                parsed == inp.nativeData[l]
            IN  /\ \A p \in LeafPaths(parsed) : Get(saved, p) = Get(parsed, p)
                /\ LeafPaths(saved) \subseteq LeafPaths(parsed) \cup {<<"invocation">>}
                /\ Has(parsed, <<"invocation">>) \/ Get(saved, <<"invocation">>) = Str("")

\* a locale without a canonical model was reverse-built after a locale that
\* has one, whose saved model holds other fields
C20_Witness ==
    /\ res.op = "buildReverse"
    /\ Len(inp.locales) = 2
    /\ inp.locales[2] \in NewlyReversed
    /\ inp.locales[1] \in DOMAIN res.value.store
    /\ LeafPaths(res.value.store[inp.locales[1]])
            \ LeafPaths(res.value.store[inp.locales[2]]) # {}
    /\ inp.locales[1] \in DOMAIN inp.models

\* the locales reverse-built over a canonical model, with parsed data
MergedIntoExisting ==
    {l \in Elems(inp.locales) : l \in DOMAIN inp.models /\ inp.nativeData[l] # Undef}

\* the elements of an array value
ElementsOf(value) == IF value.t = "a" THEN Elems(value.v) ELSE {}

(* C21: after a reverse build, the model saved for a locale that had a       *)
(* canonical model holds every scalar of the parsed data, every field that   *)
(* only the existing model had, and for every array of the two the union of  *)
(* the existing and the parsed elements.                                     *)
C21_ReverseMerge ==
    res.op = "buildReverse" =>
        \A l \in MergedIntoExisting :
            LET saved == res.value.store[l]
                existing == inp.models[l]
                parsed == inp.nativeData[l]
            IN  /\ \A p \in LeafPaths(parsed) :
                        Get(parsed, p).t \in {"s", "n"} => Get(saved, p) = Get(parsed, p)
                /\ \A p \in LeafPaths(existing) :
                        ~Has(parsed, p) => Get(saved, p) = Get(existing, p)
                /\ \A p \in LeafPaths(existing) \cup LeafPaths(parsed) :
                        Get(existing, p).t = "a" \/ Get(parsed, p).t = "a" =>
                            ElementsOf(Get(saved, p))
                                = ElementsOf(Get(existing, p)) \cup ElementsOf(Get(parsed, p))

\* the paths of the generated keys
GeneratedPaths == {Generated[i].path : i \in 1..Len(Generated)}

(* C27: when the platform directory exists the project file tree that is     *)
(* written holds the user's files and, besides them, only generated keys     *)
(* that the user's files do not have; when it does not exist the tree also   *)
(* holds every value of the default tree at a path the user's files do not   *)
(* set.                                                                      *)
C27_DefaultsOnlyWithoutPlatform ==
    ProjectFilesBuilt =>
        LET written == res.value.written
        IN  IF inp.hasPlatform
            THEN /\ res.value.before = inp.files
                 /\ \A p \in LeafPaths(written) :
                        \/ p \in LeafPaths(inp.files) /\ Get(written, p) = Get(inp.files, p)
                        \/ \E g \in GeneratedPaths : IsPrefix(g, p) /\ ~Has(inp.files, g)
            ELSE \A p \in LeafPaths(inp.defaults) :
                        (Get(inp.defaults, p).t # "o" /\ ~Has(inp.files, p)) =>
                            Get(written, p) = Get(inp.defaults, p)

\* the platform directory exists, the default tree holds a value the user's files
\* do not set, and a generated key was added to the user's files
C27_Witness ==
    /\ ProjectFilesBuilt
    /\ inp.hasPlatform
    /\ inp.files # EmptyObj
    /\ \E p \in LeafPaths(inp.defaults) :
            Get(inp.defaults, p).t = "s" /\ ~Has(res.value.written, p)
    /\ res.value.written # inp.files

\* the native files of any locale of the build whose directory has an 'intents' segment
IntentFilesOfBuild ==
    {f \in UNION {Elems(inp.conversions[i]) : i \in 1..Len(inp.conversions)} :
        \E i \in 1..(Len(f) - 1) : f[i] = K("intents")}

(* C28: after the Google build of all locales the actions registry in the   *)
(* platform directory has an entry for every intent file that was produced  *)
(* for any of the locales.                                                   *)
C28_RegistryOfAllLocales ==
    res.op = "build" =>
        \A f \in IntentFilesOfBuild : Has(res.value[ActionsPath], <<K("custom"), NameOf(f)>>)

-----------------------------------------------------------------------------
(* Properties of the reverse build *)

ReverseTasksRun == hpc = "tasks" /\ active = {Handler("alexa", "buildReverse")}

(* C22: a reverse task fails only with 'Alexa files did not contain any      *)
(* valid data.', and saveModel was not called for its locale, whose model    *)
(* file is as it was; when the run of the reverse tasks ends every task has  *)
(* run, and saveModel was called for the locale of every task that did not   *)
(* fail.                                                                     *)
C22_NoValidData ==
    [][/\ ReverseTasksRun =>
            \A i \in 1..Len(tasks) :
                tasks[i].status = "failed" =>
                    /\ tasks[i].msg = MsgNoValidData
                    /\ tasks[i].locale \notin Elems(proj.saves)
                    /\ tasks[i].locale \in proj.models <=> tasks[i].locale \in inp.canon
       /\ (ReverseTasksRun /\ hpc' = "none") =>
            \A i \in 1..Len(tasks) :
                /\ tasks[i].status \in {"ok", "failed"}
                /\ tasks[i].status = "ok" => tasks[i].locale \in Elems(proj.saves)
      ]_vars

\* the first locale's task failed, its model file exists, and the second locale was saved
C22_Witness ==
    /\ ReverseTasksRun
    /\ Len(tasks) = 2
    /\ tasks[1].status = "failed" /\ tasks[1].locale \in inp.canon
    /\ tasks[2].status = "ok" /\ proj.saves = <<tasks[2].locale>>

\* buildReverse got past the selection of its locales
Selected ==
    "alexa" \in ctx.reverse.platforms /\ err.msg \notin {MsgNoPlatformModel, MsgNoModelsFolder}

\* model files existed for the selected locales when buildReverse looked
ModelFilesExisted == \E l \in Elems(ctx.reverse.locales) : l \in inp.canon

ReverseActive == active = {Handler("alexa", "buildReverse")}

(* C24: the reverse build prompts at most once, and only when model files    *)
(* exist for the selected locales and --force is not set; after 'cancel' no  *)
(* backup is made, no model is saved and no task runs; after 'backup' every  *)
(* selected locale has been backed up before the first reverse task starts;  *)
(* with --force or without model files there is no prompt and no backup and  *)
(* the reverse tasks of the selected locales run.                            *)
C24_OverwriteProtocol ==
    LET r == ctx.reverse
    IN  /\ proj.prompts \in {0, 1}
        /\ proj.prompts = 1 <=> (Selected /\ ModelFilesExisted /\ ~r.force)
        /\ proj.prompts = 0 => r.answer = ""
        /\ r.answer = "cancel" => proj.backups = {} /\ proj.saves = <<>> /\ ~ReverseActive
        /\ r.answer # "backup" => proj.backups = {}
        /\ (Selected /\ ReverseActive) =>
                /\ [i \in 1..Len(tasks) |-> tasks[i].locale] = r.locales
                /\ hpc \in {"backup", "tasks"}
                /\ hpc = "backup" =>
                        /\ r.answer = "backup" /\ proj.saves = <<>>
                        /\ \A i \in 1..Len(tasks) : tasks[i].kind = "backup"
                /\ hpc = "tasks" =>
                        /\ r.answer = "backup" => proj.backups = Elems(r.locales)
                        /\ \A i \in 1..Len(tasks) : tasks[i].kind = "reverse"

\* after 'backup' two locales have been backed up and the first reverse task has run
C24_Witness ==
    /\ ReverseActive
    /\ ctx.reverse.answer = "backup"
    /\ Len(ctx.reverse.locales) = 2
    /\ proj.backups = Elems(ctx.reverse.locales)
    /\ Len(proj.saves) = 1

\* the locales that have a model in the platform's models folder
FoundLocales == {l \in Elems(LocaleOrder) : ModelFile(l) \in disk["alexa"].files}

ModelsFolderExists == \E f \in disk["alexa"].files : f[1] = "model"

\* the requested locales that have no platform model
MissingLocales == {l \in Elems(inp.locales) : l \notin FoundLocales}

NothingTouched == proj.prompts = 0 /\ proj.backups = {} /\ proj.saves = <<>>

\* what the claim says of the selection apart from requested locales without a model
SelectionRules ==
    LET r == ctx.reverse
    IN  /\ (r.platforms # {} /\ "alexa" \notin r.platforms) => NothingTouched /\ ~ReverseActive
        /\ (Selected /\ ~r.localeFlag) =>
                Elems(r.locales) = FoundLocales /\ Len(r.locales) = Cardinality(FoundLocales)
        /\ (Selected /\ r.localeFlag) => r.locales = inp.locales /\ MissingLocales = {}
        /\ (Selected /\ ReverseActive) => [i \in 1..Len(tasks) |-> tasks[i].locale] = r.locales

(* C25 as stated: the reverse build does nothing when the platforms do not   *)
(* include the plugin; without --locale it selects every locale found in     *)
(* the models folder, with --locale the requested locales in their order;    *)
(* whenever a requested locale has no platform model it throws 'Could not    *)
(* find platform models for locale' before any prompt, backup or save.       *)
C25_SelectionAsStated ==
    /\ SelectionRules
    /\ ("alexa" \in ctx.reverse.platforms /\ ctx.reverse.localeFlag /\ MissingLocales # {}) =>
            /\ err.msg = MsgNoPlatformModel
            /\ NothingTouched

(* C25 amended: as stated, for a models folder that exists; when the folder  *)
(* does not exist the reverse build fails with the error of reading it, with *)
(* or without --locale, also before any prompt, backup or save.              *)
C25_Selection ==
    /\ SelectionRules
    /\ ("alexa" \in ctx.reverse.platforms /\ ctx.reverse.localeFlag /\ MissingLocales # {}
            /\ ModelsFolderExists) =>
            /\ err.msg = MsgNoPlatformModel
            /\ err.locale \in MissingLocales
            /\ \A i \in 1..Len(inp.locales) :
                    inp.locales[i] = err.locale =>
                        \A j \in 1..(i - 1) : inp.locales[j] \in FoundLocales
            /\ NothingTouched
    /\ ("alexa" \in ctx.reverse.platforms /\ ~ModelsFolderExists) =>
            err.msg = MsgNoModelsFolder /\ NothingTouched

\* a requested locale has a platform model and a canonical model, a later one has no
\* platform model, and the reverse build threw for the later one
C25_Witness ==
    /\ "alexa" \in ctx.reverse.platforms /\ ctx.reverse.localeFlag
    /\ ModelsFolderExists
    /\ Len(inp.locales) = 2
    /\ inp.locales[1] \in FoundLocales \cap inp.canon
    /\ err.msg = MsgNoPlatformModel /\ err.locale = inp.locales[2]

-----------------------------------------------------------------------------
(* Properties of the platform directory *)

(* C26: when before.build has failed because a locale is not supported, the  *)
(* platform directory of the plugin that failed is as it was before the      *)
(* invocation, with or without --clean.                                      *)
C26_UnsupportedLeavesDirectory ==
    err.msg \in {MsgAlexaUnsupported, MsgGoogleUnsupported} =>
        disk[err.plugin] = DiskBefore(inp.existed)[err.plugin]

-----------------------------------------------------------------------------
(* Properties of file-system failures *)

(* C23: when a write fails while a locale's interaction model is built, the  *)
(* locale's task fails with the file system's own error, its class and its   *)
(* message unchanged, and every task before it keeps the outcome it had.     *)
C23_FileSystemError ==
    [][\A i \in 1..Len(tasks) :
            (/\ Len(tasks') = Len(tasks)
             /\ tasks[i].kind = "model"
             /\ tasks[i].status = "pending"
             /\ tasks'[i].msg = MsgEacces) =>
                /\ tasks'[i].status = "failed"
                /\ tasks'[i].thrown = "Error"
                /\ \A j \in 1..Len(tasks) : j # i => tasks'[j] = tasks[j]
      ]_vars


====
